---------------------------- MODULE Spec2Model ----------------------------
(***************************************************************************)
(* A model of the execution core of the flux query engine:                 *)
(*   - the graph builder and resource defaulting of execute/executor.go    *)
(*     (createExecutionState, createExecutionNodeVisitor.Visit, ...),      *)
(*     specification SpecBuild;                                            *)
(*   - the two-parent diff transformation (DiffTransformation),            *)
(*     specification SpecDiff for Process and Finish, SpecMark for the     *)
(*     watermark and processing-time updates;                              *)
(*   - the orchestrator executionState.do / abort, specifications SpecRun  *)
(*     and FairRun;                                                        *)
(*   - the limit transformation of stdlib/universe/limit.go,               *)
(*     specification SpecLimit, and its chunk-wise adapter,                *)
(*     specification SpecNarrow;                                           *)
(*   - the way from the arguments of testing.diff to the transformation    *)
(*     and one diff of two tables, specification SpecOperator;             *)
(*   - the digest pool of QuantileAgg (the Go code carried by              *)
(*     stdlib/universe/drop_after_rename_test.flux), specification         *)
(*     SpecQuantile.                                                       *)
(* Each specification drives its own group of variables and leaves the     *)
(* other groups at their idle values; SpecBuild ends with the launch of    *)
(* do(), which sets the orchestrator's variables once.                     *)
(***************************************************************************)
EXTENDS Integers, Sequences, FiniteSets, TLC

(***************************************************************************)
(* Bounds of the model.                                                    *)
(***************************************************************************)
\* Largest number of nodes of a physical plan.
MaxNodes == 3

\* The replication factor carried by parallel-run / parallel-merge attributes.
ParFactor == 2

\* Largest ambient concurrency limit and largest explicit quota drawn.
MaxLimit == 2

\* Largest number of group keys, of rows of a table, and of Process calls
\* the parents of the diff transformation make.
MaxKeys == 2

MaxRows == 1

MaxProcess == 4

\* Largest watermark or processing time a parent of the diff reports.
MaxMark == 3

\* Largest number of sources and transports of a run, taken together.
MaxUnits == 3

\* The number of results of a run.
MaxResults == 2

\* Largest n and largest offset of a limit, largest number of rows of a
\* column batch, of batches of a table, and of tables a limit processes.
MaxCount == 2

MaxBatchLen == 2

MaxBatches == 3

MaxTables == 2

\* Largest number of aggregated columns, largest compression, and largest
\* number of aggregate states a QuantileAgg hands out.
MaxColumns == 2

MaxCompression == 2

MaxStates == 3

\* Largest epsilon given to testing.diff, in units of 1e-6, and largest
\* number of rows of a table handed to diff on its own.
MaxEpsilon == 2

MaxDiffRows == 3

\* math.MaxInt64 (executor.go:369): the greatest integer; TLC's integers are
\* 32 bits wide, so the greatest of those stands for it.  It is only compared
\* against small sums.
MaxInt64 == 2147483647

VARIABLES
    \* ---- graph builder (createExecutionState) ----
    plan,        \* p *plan.Spec: sequence of plan nodes in bottom-up visit order
    stage,       \* position in createExecutionState / Execute
    cursor,      \* next plan node BottomUpWalk hands to Visit
    vnodes,      \* v.nodes: plan node -> its replicas
    ecs,         \* the executionContext built for each replica
    results,     \* es.results: name -> result
    sources,     \* es.sources
    transports,  \* es.transports
    resources,   \* es.resources
    ambient,     \* the execution options found in ctx
    planRes,     \* p.Resources as handed in
    metaCap,     \* cap(es.metaCh)
    ret,         \* what Execute returned
    err,         \* the error Execute returned
    attempts,    \* history: the names generateResult was called with
    \* ---- the diff transformation (DiffTransformation) ----
    parentState, \* t.parentState: parent id -> diffParentState
    inputCache,  \* t.inputCache: the buffered tables, in insertion order
    builders,    \* t.cache: group key -> the rows of the output table
    dFinish,     \* the errors t.d.Finish was called with, in call order
    reported,    \* history: the errors the parents' Finish calls carried
    nProcess,    \* the number of Process calls made
    lastRet,     \* what the last Process call returned
    dWatermark,  \* the last value handed to t.d.UpdateWatermark, <<>> if none
    dProcessing, \* the last value handed to t.d.UpdateProcessingTime, <<>> if none
    \* ---- the orchestrator (executionState.do, abort) ----
    nSrc,        \* len(es.sources)
    nTr,         \* len(es.transports)
    isMeta,      \* which sources are MetadataNodes
    runStage,    \* "validated" before do(), "running" after
    srcPc,       \* where each source's goroutine is
    metaQ,       \* es.metaCh: the sources whose metadata was sent, in order
    metaClosed,  \* es.metaCh has been closed
    dispStopped, \* dispatcher.Stop() has returned
    dispErr,     \* the first error the dispatcher has seen
    errC,        \* the value waiting on dispatcher.Err()
    tFinished,   \* which transports have signalled Finished()
    ctxErr,      \* es.ctx.Err(): "nil" until the context is cancelled
    cancelledBy, \* who cancelled the run context first
    resErr,      \* result name -> the error it was aborted with, "nil" if none
    wPc,         \* where the watcher goroutine is
    wIdx,        \* the transport the watcher's loop is at
    wErr,        \* the argument of the abort the watcher is in
    abortArgs,   \* history: the errors abort has been invoked with
    earlyCancel, \* history: the context was cancelled from outside before the watcher exited
    dispQuota,   \* the argument of dispatcher.Start, 0 before the dispatcher is started
    panicked,    \* history: the sources whose Run panicked
    \* ---- limitTransformation ----
    limitT,      \* the transformation and the table it is processing:
                 \*   n, offset : t.n, t.offset
                 \*   stage     : "ready" between tables, "do" inside tbl.Do
                 \*   input     : the table at hand, the length of each of its batches
                 \*   idx       : the number of batches tbl.Do has handed over
                 \*   curN, curOffset : n and offset of limitTable
                 \*   out       : the chunks written to the stream writer, as row positions
                 \*   tables    : the number of tables handed to Process
    \* ---- limitTransformationAdapter ----
    narrowT,     \* the adapter and the table whose chunks it is handed:
                 \*   n, offset : t.limitTransformation.n, .offset
                 \*   stage     : "ready" between tables, "chunks" inside one
                 \*   input     : the table at hand, the length of each of its chunks
                 \*   idx       : the number of chunks handed to Process
                 \*   state     : the limitState carried for the table, set = FALSE for nil
                 \*   out       : the chunks passed to dataset.Process, as row positions
                 \*   tables    : the number of tables started
    \* ---- QuantileAgg ----
    agg,         \* the aggregate and the states it handed out:
                 \*   Compression : a.Compression
                 \*   cap         : cap(a.freeDigests)
                 \*   freeDigests : a.freeDigests
                 \*   states      : the QuantileAggState values, their digest 0 for nil
                 \*   made        : the number of digests created
                 \*   accounted   : the bytes accounted against a.mem
                 \*   closed      : history, QuantileAgg.Close has been called
    \* ---- testing.diff, from its arguments to one diff ----
    diffOp       \* stage : "args", "op", "proc", "tr", "done"
                 \*   args  : the arguments of the call
                 \*   op    : the DiffOpSpec
                 \*   proc  : the DiffProcedureSpec
                 \*   t     : the DiffTransformation (epsilon, nansEqual)
                 \*   key, want, got, out : one call of t.diff and what it
                 \*           returned

buildVars == <<plan, stage, cursor, vnodes, ecs, results, sources, transports,
               resources, ambient, planRes, metaCap, ret, err, attempts>>

diffVars == <<parentState, inputCache, builders, dFinish, reported, nProcess, lastRet,
              dWatermark, dProcessing>>

runVars == <<nSrc, nTr, isMeta, runStage, srcPc, metaQ, metaClosed, dispStopped,
             dispErr, errC, tFinished, ctxErr, cancelledBy, resErr, wPc, wIdx, wErr,
             abortArgs, earlyCancel, dispQuota, panicked>>

opVars == <<limitT, narrowT, agg, diffOp>>

vars == <<buildVars, diffVars, runVars, opVars>>

(***************************************************************************)
(* The state of a component no specification at hand is driving.           *)
(***************************************************************************)
DiffIdle ==
    /\ parentState = <<>>
    /\ inputCache = <<>>
    /\ builders = <<>>
    /\ dFinish = <<>>
    /\ reported = <<>>
    /\ nProcess = 0
    /\ lastRet = ""
    /\ dWatermark = <<>>
    /\ dProcessing = <<>>

RunIdle ==
    /\ nSrc = 0
    /\ nTr = 0
    /\ isMeta = <<>>
    /\ runStage = "idle"
    /\ srcPc = <<>>
    /\ metaQ = <<>>
    /\ metaClosed = FALSE
    /\ dispStopped = FALSE
    /\ dispErr = "nil"
    /\ errC = "nil"
    /\ tFinished = <<>>
    /\ ctxErr = "nil"
    /\ cancelledBy = "nobody"
    /\ resErr = <<>>
    /\ wPc = "idle"
    /\ wIdx = 1
    /\ wErr = "nil"
    /\ abortArgs = {}
    /\ earlyCancel = FALSE
    /\ dispQuota = 0
    /\ panicked = {}

\* No limit transformation has been constructed.
LimitIdle == limitT = [stage |-> "idle"]

\* No limitTransformationAdapter has been constructed.
NarrowIdle == narrowT = [stage |-> "idle"]

\* No QuantileAgg has been constructed.
QuantIdle == agg = [closed |-> FALSE]

DiffOpIdle == diffOp = [stage |-> "idle"]

OpIdle == LimitIdle /\ NarrowIdle /\ QuantIdle /\ DiffOpIdle

BuildIdle ==
    /\ plan = <<>>
    /\ stage = "idle"
    /\ cursor = 1
    /\ vnodes = <<>>
    /\ ecs = <<>>
    /\ results = <<>>
    /\ sources = <<>>
    /\ transports = <<>>
    /\ resources = [mem |-> 0, conc |-> 0]
    /\ ambient = [deps |-> FALSE, mem |-> 0, limit |-> 0]
    /\ planRes = [mem |-> 0, conc |-> 0]
    /\ metaCap = 0
    /\ ret = "pending"
    /\ err = ""
    /\ attempts = <<>>

(***************************************************************************)
(* Physical plans.  Node n of a plan is plan[n]; its predecessors have      *)
(* smaller numbers, so 1, 2, ... is a bottom-up order.                      *)
(*   kind  : the operation kind of the procedure spec                      *)
(*   preds : node.Predecessors(), in declaration order                     *)
(*   run   : Factor of the ParallelRunKey attribute, 0 when absent         *)
(*   merge : Factor of the ParallelMergeKey attribute, 0 when absent       *)
(*   name  : YieldName() of a yield                                        *)
(***************************************************************************)
DefaultYieldName == "_result"

YieldNames == {DefaultYieldName, "a"}

Node(k, ps, r, m, nm) == [kind |-> k, preds |-> ps, run |-> r, merge |-> m, name |-> nm]

LeafShapes ==
    { Node("from", <<>>, r, 0, "") : r \in {0, ParFactor} }
        \cup { Node("bogus", <<>>, 0, 0, "") }

OnePredShapes(n) ==
    UNION { { Node("to", <<p>>, r, 0, "") : r \in {0, ParFactor} }
              \cup { Node("map", <<p>>, 0, 0, ""),
                     Node("merge", <<p>>, 0, ParFactor, ""),
                     Node("bogus", <<p>>, 0, 0, ""),
                     Node("diff", <<p>>, 0, 0, "") }
              \cup { Node("yield", <<p>>, 0, 0, nm) : nm \in YieldNames }
            : p \in 1..(n - 1) }

TwoPredShapes(n) ==
    { Node(k[1], <<p, q>>, 0, k[2], "") :
        k \in {<<"diff", 0>>, <<"merge", ParFactor>>},
        p \in 1..(n - 1), q \in 1..(n - 1) }

\* A fan-in node may list one predecessor twice.
Shapes(n) == LeafShapes \cup OnePredShapes(n)
                 \cup { s \in TwoPredShapes(n) : s.preds[1] # s.preds[2] \/ s.merge # 0 }

RECURSIVE PlansOfLen(_)
PlansOfLen(k) ==
    IF k = 0 THEN { <<>> }
    ELSE { Append(p, s) : p \in PlansOfLen(k - 1), s \in Shapes(k) }

\* The plans of at most n nodes.
Plans(n) == UNION { PlansOfLen(k) : k \in 0..n }

Nodes == DOMAIN plan

Predecessors(n) == plan[n].preds

\* Successors with the node counted among its own consumers.
SuccessorsWithSelf(n) ==
    { m \in Nodes : m = n \/ \E i \in DOMAIN plan[m].preds : plan[m].preds[i] = n }

Successors(n) == { m \in Nodes : \E i \in DOMAIN plan[m].preds : plan[m].preds[i] = n }

\* p.Roots: the nodes nothing consumes.
Roots == { n \in Nodes : Successors(n) = {} }

\* node.ID()
NodeID(n) == "n" \o ToString(n)

\* The registries procedureToSource and procedureToTransformation.
procedureToSource == {"from"}

\* procedureToTransformation with a constructor for every kind.
procedureToTransformationAll == {"map", "to", "merge", "diff", "bogus"}

procedureToTransformation == {"map", "to", "merge", "diff"}

\* plan.HasSideEffect
HasSideEffect(kind) == kind = "to"

isYield(n) == plan[n].kind = "yield"

RECURSIVE skipYields(_)
skipYields(n) == IF isYield(n) THEN skipYields(Predecessors(n)[1]) ELSE n

\* nonYieldPredecessors with the yields left in place.
predecessorsKeepingYields(n) == Predecessors(n)

nonYieldPredecessors(n) == [i \in DOMAIN Predecessors(n) |-> skipYields(Predecessors(n)[i])]

\* datasetIDFromNodeID: the id of replica i of plan node n.
datasetIDFromNodeID(n, i) == <<n, i>>

copiesOf(n) == IF plan[n].run # 0 THEN plan[n].run ELSE 1

predCopiesOf(n) == IF plan[n].merge # 0 THEN plan[n].merge ELSE 1

isParallelMerge(n) == plan[n].merge # 0

(***************************************************************************)
(* createExecutionNodeVisitor.Visit                                        *)
(***************************************************************************)
\* parentEntry with every replica wired to the predecessor's first copies,
\* whatever the replica's own index.
parentEntryIgnoringGroup(n, i, k) ==
    LET pc == predCopiesOf(n)
        pi == (k - 1) \div pc
        j  == (k - 1) % pc
    IN  datasetIDFromNodeID(nonYieldPredecessors(n)[pi + 1], j)

\* parentEntry with the predecessor copies laid out in descending order.
parentEntryReversed(n, i, k) ==
    LET pc == predCopiesOf(n)
        pi == (k - 1) \div pc
        j  == (k - 1) % pc
    IN  datasetIDFromNodeID(nonYieldPredecessors(n)[pi + 1], i + (pc - 1 - j))

\* Entry k (from 1) of the parent list of replica i (from 0) of node n:
\* ec[i].parents[pi*predCopies+j] = datasetIDFromNodeID(pred.ID(), i+j).
parentEntry(n, i, k) ==
    LET pc == predCopiesOf(n)
        pi == (k - 1) \div pc
        j  == (k - 1) % pc
    IN  datasetIDFromNodeID(nonYieldPredecessors(n)[pi + 1], i + j)

\* ec[i].parents of replica i of node n.
ecParents(n, i) ==
    [k \in 1..(Len(Predecessors(n)) * predCopiesOf(n)) |-> parentEntry(n, i, k)]

\* The executionContext of replica i of node n.
executionContext(n, i) ==
    [parents |-> ecParents(n, i), group |-> i, factor |-> copiesOf(n)]

\* newTransports with the copies of a predecessor taken in descending order.
newTransportsReversed(n, base) ==
    LET np == Len(Predecessors(n))
        pc == predCopiesOf(n)
    IN  [k \in 1..(copiesOf(n) * np * pc) |->
            LET i   == (k - 1) \div (np * pc)
                rem == (k - 1) % (np * pc)
                pi  == rem \div pc
                j   == rem % pc
            IN  [idx  |-> base + k,
                 from |-> datasetIDFromNodeID(nonYieldPredecessors(n)[pi + 1],
                                              i + (pc - 1 - j)),
                 to   |-> datasetIDFromNodeID(n, i)]]

\* The transports Visit creates for node n, in creation order: replica i,
\* then predecessor pi, then predecessor copy j.  The producer is
\* v.nodes[p][i+j]; `base` is len(es.transports) before the visit.
newTransports(n, base) ==
    LET np == Len(Predecessors(n))
        pc == predCopiesOf(n)
    IN  [k \in 1..(copiesOf(n) * np * pc) |->
            LET i   == (k - 1) \div (np * pc)
                rem == (k - 1) % (np * pc)
                pi  == rem \div pc
                j   == rem % pc
            IN  [idx  |-> base + k,
                 from |-> datasetIDFromNodeID(nonYieldPredecessors(n)[pi + 1], i + j),
                 to   |-> datasetIDFromNodeID(n, i)]]

\* v.nodes[p][i+j] indexes past the predecessor's replicas: a run-time panic.
wiringPanics(n, vn) ==
    \E i \in 0..(copiesOf(n) - 1), pi \in DOMAIN Predecessors(n), j \in 0..(predCopiesOf(n) - 1) :
        LET p == nonYieldPredecessors(n)[pi]
        IN  p \notin DOMAIN vn \/ i + j >= Len(vn[p])

\* The constructor registered for the kind fails: createDiffTransformation
\* wants exactly two parents.
constructorFails(n) ==
    plan[n].kind = "diff" /\ Len(ecParents(n, 0)) # 2

transportRef(t) == [type |-> "transport", idx |-> t.idx, name |-> ""]

resultRef(name) == [type |-> "result", idx |-> 0, name |-> name]

\* executionNode.AddTransformation(transport) for every new transport whose
\* producer is replica r (from 0) of node m.
addedDownstream(m, r, ts) ==
    LET mine == SelectSeq(ts, LAMBDA t : t.from = datasetIDFromNodeID(m, r))
    IN  [k \in 1..Len(mine) |-> transportRef(mine[k])]

\* newReplicas with every replica given the id of replica 0.
newReplicasOneIndex(n, what) ==
    [i \in 1..copiesOf(n) |->
        [id |-> datasetIDFromNodeID(n, 0), kind |-> what, label |-> NodeID(n),
         downstream |-> <<>>]]

\* The replicas Visit stores in v.nodes[n].
newReplicas(n, what) ==
    [i \in 1..copiesOf(n) |->
        [id |-> datasetIDFromNodeID(n, i - 1), kind |-> what, label |-> NodeID(n),
         downstream |-> <<>>]]

\* The part of Visit that instantiates node n (executor.go 188-289).
\* The outcome is an error, a panic, or the new builder state.
instantiate(n, vn, srcs, trs) ==
    IF Len(Predecessors(n)) = 0
    THEN IF plan[n].kind \notin procedureToSource
         THEN [status |-> "error", err |-> "unsupported source kind",
               vnodes |-> vn, sources |-> srcs, transports |-> trs]
         ELSE [status |-> "ok", err |-> "",
               vnodes |-> vn @@ (n :> newReplicas(n, "source")),
               sources |-> srcs \o [i \in 1..copiesOf(n) |-> datasetIDFromNodeID(n, i - 1)],
               transports |-> trs]
    ELSE IF plan[n].kind \notin procedureToTransformation
         THEN [status |-> "error", err |-> "unsupported procedure",
               vnodes |-> vn, sources |-> srcs, transports |-> trs]
         ELSE IF constructorFails(n)
         THEN [status |-> "error", err |-> "constructor",
               vnodes |-> vn, sources |-> srcs, transports |-> trs]
         ELSE IF wiringPanics(n, vn)
         THEN [status |-> "panic", err |-> "index out of range",
               vnodes |-> vn, sources |-> srcs, transports |-> trs]
         ELSE LET ts == newTransports(n, Len(trs))
              IN  [status |-> "ok", err |-> "",
                   vnodes |-> [m \in DOMAIN vn |->
                                 [r \in DOMAIN vn[m] |->
                                    [vn[m][r] EXCEPT !.downstream =
                                        @ \o addedDownstream(m, r - 1, ts)]]]
                               @@ (n :> newReplicas(n, "dataset")),
                   sources |-> srcs,
                   transports |-> trs \o ts]

\* getResultName looking at the node's own procedure spec only.
getResultNameOwnSpec(n) ==
    IF isParallelMerge(n) /\ Len(Predecessors(n)) # 1
    THEN [err |-> "parallel merge must have a single predecessor", name |-> ""]
    ELSE [err |-> "",
          name |-> IF HasSideEffect(plan[n].kind) THEN NodeID(n) ELSE DefaultYieldName]

\* getResultName
getResultName(n) ==
    IF isParallelMerge(n) /\ Len(Predecessors(n)) # 1
    THEN [err |-> "parallel merge must have a single predecessor", name |-> ""]
    ELSE LET spec == IF isParallelMerge(n) THEN plan[Predecessors(n)[1]].kind
                     ELSE plan[n].kind
         IN  [err |-> "",
              name |-> IF HasSideEffect(spec) THEN NodeID(n) ELSE DefaultYieldName]

\* alreadyProduced with the check left out.
alreadyProducedNever(res, name) == FALSE

\* The test of generateResult: the name is already in the result set.
alreadyProduced(res, name) == name \in DOMAIN res

\* generateResult that attaches the result to the node without entering it
\* in es.results.
generateResultUnstored(name, n, vn, res) ==
    IF alreadyProduced(res, name)
    THEN [err |-> "tried to produce more than one result", vnodes |-> vn, results |-> res]
    ELSE LET tgt == skipYields(n)
         IN  [err |-> "",
              results |-> res,
              vnodes |-> [vn EXCEPT ![tgt][1].downstream = Append(@, resultRef(name))]]

\* generateResult(resultName, node, 0)
generateResult(name, n, vn, res) ==
    IF alreadyProduced(res, name)
    THEN [err |-> "tried to produce more than one result", vnodes |-> vn, results |-> res]
    ELSE LET tgt == skipYields(n)
         IN  [err |-> "",
              results |-> res @@ (name :> [name |-> name, node |-> tgt, idx |-> 0]),
              vnodes |-> [vn EXCEPT ![tgt][1].downstream = Append(@, resultRef(name))]]

\* What Visit(n) does to the builder, as one outcome record.
visitOutcome(n) ==
    IF isYield(n)
    THEN LET g == generateResult(plan[n].name, n, vnodes, results)
         IN  [status |-> IF g.err = "" THEN "ok" ELSE "error", err |-> g.err,
              vnodes |-> g.vnodes, results |-> g.results,
              sources |-> sources, transports |-> transports,
              ecs |-> ecs, tried |-> <<plan[n].name>>]
    ELSE LET inst == instantiate(n, vnodes, sources, transports)
             ecn  == ecs @@ (n :> [i \in 1..copiesOf(n) |-> executionContext(n, i - 1)])
             base == [status |-> inst.status, err |-> inst.err,
                      vnodes |-> inst.vnodes, results |-> results,
                      sources |-> inst.sources, transports |-> inst.transports,
                      ecs |-> ecn, tried |-> <<>>]
         IN  IF inst.status # "ok" \/ Successors(n) # {}
             THEN base
             ELSE LET rn == getResultName(n)
                  IN  IF rn.err # ""
                      THEN [base EXCEPT !.status = "error", !.err = rn.err]
                      ELSE LET g == generateResult(rn.name, n, inst.vnodes, results)
                           IN  [base EXCEPT !.status = IF g.err = "" THEN "ok" ELSE "error",
                                            !.err = g.err,
                                            !.vnodes = g.vnodes,
                                            !.results = g.results,
                                            !.tried = <<rn.name>>]

\* BottomUpWalk hands the next node to Visit.  An error ends the walk and
\* makes createExecutionState and Execute return it (executor.go 99-101 and
\* 73-76); a panic unwinds Execute.
Visit ==
    /\ stage = "walk"
    /\ cursor \in Nodes
    /\ LET o == visitOutcome(cursor)
       IN  /\ attempts' = attempts \o o.tried
           /\ IF o.status = "ok"
              THEN /\ vnodes' = o.vnodes
                   /\ ecs' = o.ecs
                   /\ results' = o.results
                   /\ sources' = o.sources
                   /\ transports' = o.transports
                   /\ cursor' = cursor + 1
                   /\ stage' = IF cursor = Len(plan) THEN "resources" ELSE "walk"
                   /\ UNCHANGED <<ret, err>>
              ELSE /\ ret' = o.status
                   /\ err' = o.err
                   /\ stage' = "done"
                   /\ UNCHANGED <<vnodes, ecs, results, sources, transports, cursor>>
    /\ UNCHANGED <<plan, resources, ambient, planRes, metaCap>>

(***************************************************************************)
(* Resource defaulting and validation                                      *)
(***************************************************************************)
\* The execution options a context can carry: none at all (no execution
\* dependencies), or DefaultMemoryLimit and ConcurrencyLimit.
NoDeps == [deps |-> FALSE, mem |-> 0, limit |-> 0]

Ambients == {NoDeps} \cup [deps : {TRUE}, mem : {1}, limit : 0..MaxLimit]

\* p.Resources; ConcurrencyQuota is an int, nothing keeps it from being
\* negative.
PlanResources == [mem : {0, 2}, conc : (-1)..MaxLimit]

\* getResourceLimits: (DefaultMemoryLimit, ConcurrencyLimit)
getResourceLimits(amb) ==
    IF ~amb.deps THEN [mem |-> 0, limit |-> MaxInt64]
    ELSE [mem |-> amb.mem, limit |-> amb.limit]

\* addend with the source nodes counted too.
addendWithSources(n) == IF plan[n].run # 0 THEN plan[n].run ELSE 1

\* The addend of one node in the TopDownWalk of chooseDefaultResources.
addend(n) ==
    IF Len(Predecessors(n)) > 0
    THEN (IF plan[n].run # 0 THEN plan[n].run ELSE 1)
    ELSE 0

RECURSIVE sumAddends(_)
sumAddends(S) ==
    IF S = {} THEN 0
    ELSE LET n == CHOOSE x \in S : TRUE IN addend(n) + sumAddends(S \ {n})

\* The concurrency quota chosen when the plan sets none.
defaultConcurrency(limit) ==
    IF limit > 0
    THEN LET q == sumAddends(Nodes)
         IN  IF q > limit THEN limit ELSE IF q = 0 THEN 1 ELSE q
    ELSE Cardinality(Roots)

\* chooseDefaultResources with a set concurrency quota clamped to the limit.
chooseDefaultResourcesClamped(res, amb) ==
    LET lim == getResourceLimits(amb)
    IN  [mem  |-> IF res.mem = 0 THEN lim.mem ELSE res.mem,
         conc |-> IF res.conc = 0 THEN defaultConcurrency(lim.limit)
                  ELSE IF lim.limit > 0 /\ res.conc > lim.limit THEN lim.limit
                  ELSE res.conc]

\* chooseDefaultResources
chooseDefaultResources(res, amb) ==
    LET lim == getResourceLimits(amb)
    IN  [mem  |-> IF res.mem = 0 THEN lim.mem ELSE res.mem,
         conc |-> IF res.conc = 0 THEN defaultConcurrency(lim.limit) ELSE res.conc]

\* createExecutionState after the walk: size the metadata channel and choose
\* the default resources (executor.go 103-109).  The plan's resources and
\* the context's options are inputs of Execute; the walk does not read them.
ChooseDefaultResources ==
    /\ stage = "resources"
    /\ \E r \in PlanResources, a \in Ambients :
          /\ planRes' = r
          /\ ambient' = a
          /\ resources' = chooseDefaultResources(r, a)
    /\ metaCap' = Len(sources)
    /\ stage' = "validate"
    /\ UNCHANGED <<plan, cursor, vnodes, ecs, results, sources, transports, ret, err, attempts>>

\* executionState.validate
validate(res) ==
    IF res.conc = 0 THEN "execution state must have a non-zero concurrency quota" ELSE ""

\* createExecutionState validates and returns; Execute returns the results
\* map, or the error (executor.go 111-115 and 73-78).
Validate ==
    /\ stage = "validate"
    /\ stage' = "done"
    /\ IF validate(resources) # ""
       THEN ret' = "error" /\ err' = validate(resources)
       ELSE ret' = "results" /\ err' = ""
    /\ UNCHANGED <<plan, cursor, vnodes, ecs, results, sources, transports,
                   resources, ambient, planRes, metaCap, attempts>>

\* sourceUnits with the sources throttled by the concurrency quota.
sourceUnitsThrottled(ns, q) == IF q < ns THEN (IF q < 0 THEN 0 ELSE q) ELSE ns

\* The number of goroutines do() starts to call src.Run: one for every
\* element of es.sources, whatever the quota q.
sourceUnits(ns, q) == ns

\* What do() launches for ns sources, nt transports and quota q: the source
\* goroutines, dispatcher.Start(q, es.ctx), the watcher and the closer of
\* the metadata channel.  meta tells which sources are MetadataNodes, res
\* holds the results.
launch(ns, nt, meta, res, q) ==
    /\ nSrc' = ns
    /\ nTr' = nt
    /\ isMeta' = meta
    /\ resErr' = res
    /\ runStage' = "running"
    /\ srcPc' = [s \in 1..sourceUnits(ns, q) |-> "running"]
    /\ tFinished' = [t \in 1..nt |-> FALSE]
    /\ dispQuota' = q
    /\ wPc' = "loop"
    /\ wIdx' = 1
    /\ UNCHANGED <<metaQ, metaClosed, dispStopped, dispErr, errC, ctxErr, cancelledBy,
                   wErr, abortArgs, earlyCancel, panicked>>

\* executeStarts with the error of createExecutionState ignored.
executeStartsAlways(e) == TRUE

\* Execute calls es.do() only when createExecutionState returned no error.
executeStarts(e) == e = ""

\* Execute, after createExecutionState: es.do(), then the results map and
\* the metadata channel are returned (executor.go 73-78).  Every source of a
\* plan comes from the one registered source kind, so either all of them
\* are MetadataNodes or none is.
ExecuteDo ==
    /\ stage = "done"
    /\ ret # "panic"
    /\ runStage = "idle"
    /\ executeStarts(err)
    /\ \E m \in BOOLEAN :
          launch(Len(sources), Len(transports), [k \in DOMAIN sources |-> m],
                 [nm \in DOMAIN results |-> "nil"], resources.conc)
    /\ UNCHANGED buildVars

NoResources == [mem |-> 0, conc |-> 0]

InitBuild ==
    /\ plan \in Plans(MaxNodes)
    /\ stage = IF Len(plan) = 0 THEN "resources" ELSE "walk"
    /\ cursor = 1
    /\ vnodes = <<>>
    /\ ecs = <<>>
    /\ results = <<>>
    /\ sources = <<>>
    /\ transports = <<>>
    /\ resources = NoResources
    /\ ambient = NoDeps
    /\ planRes = NoResources
    /\ metaCap = 0
    /\ ret = "pending"
    /\ err = ""
    /\ attempts = <<>>

NextBuild ==
    \/ Visit /\ UNCHANGED <<diffVars, runVars, opVars>>
    \/ ChooseDefaultResources /\ UNCHANGED <<diffVars, runVars, opVars>>
    \/ Validate /\ UNCHANGED <<diffVars, runVars, opVars>>
    \/ ExecuteDo /\ UNCHANGED <<diffVars, opVars>>

InitBuildOnly == InitBuild /\ DiffIdle /\ RunIdle /\ OpIdle

SpecBuild == InitBuildOnly /\ [][NextBuild]_vars

(***************************************************************************)
(* Properties of the graph builder and of resource defaulting              *)
(***************************************************************************)
\* Visit has been called on node n.
visited(n) == n < cursor \/ (n = cursor /\ stage = "done" /\ ret \in {"error", "panic"})

\* Visit failed on node n.
failedAt(n) == n = cursor /\ stage = "done" /\ ret \in {"error", "panic"}

\* chooseDefaultResources has run.
resolved == stage = "validate" \/ (stage = "done" /\ ret = "results")

Min(a, b) == IF a < b THEN a ELSE b

\* C6: an attempt to produce a result under a name already in the result
\* set (a second yield of the name, a yield against a generated default, two
\* generated names) fails the build, and Execute returns that error and no
\* results map.
C6_DuplicateNameFailsBuild ==
    (\E i, j \in DOMAIN attempts : i < j /\ attempts[i] = attempts[j])
        => /\ stage = "done"
           /\ ret = "error"
           /\ err = "tried to produce more than one result"

\* C6 witness: a build that failed on a repeated result name whose second
\* producer is a generated default.
C6_Witness ==
    /\ ret = "error"
    /\ err = "tried to produce more than one result"
    /\ \E i, j \in DOMAIN attempts : i < j /\ attempts[i] = attempts[j]
    /\ ~isYield(cursor)

\* A parallel-run node with a single predecessor whose kind has a
\* transformation registered.
parallelRunSinglePred(n) ==
    /\ plan[n].run # 0
    /\ Len(Predecessors(n)) = 1
    /\ plan[n].kind \in procedureToTransformation
    /\ ~constructorFails(n)

C8_ParentListLayout ==
    \A n \in DOMAIN vnodes :
        LET np == Len(Predecessors(n))
            pc == predCopiesOf(n)
        IN  /\ Len(ecs[n]) = Len(vnodes[n])
            /\ \A i \in DOMAIN ecs[n] :
                  /\ Len(ecs[n][i].parents) = np * pc
                  /\ \A pi \in 1..np, j \in 0..(pc - 1) :
                        LET e == ecs[n][i].parents[(pi - 1) * pc + j + 1]
                            p == skipYields(Predecessors(n)[pi])
                        IN  /\ e = datasetIDFromNodeID(p, (i - 1) + j)
                            /\ ~isYield(p)
                            /\ \E r \in DOMAIN vnodes[p] : vnodes[p][r].id = e
            /\ (isParallelMerge(n) /\ np = 1) =>
                  /\ Len(ecs[n]) = 1
                  /\ ecs[n][1].parents =
                        [k \in 1..plan[n].merge |->
                            datasetIDFromNodeID(skipYields(Predecessors(n)[1]), k - 1)]

\* C8 witness: a parallel-merge node built behind a yield, fed by the
\* copies of a parallel node.
C8_Witness ==
    \E n \in DOMAIN vnodes :
        /\ isParallelMerge(n)
        /\ Len(Predecessors(n)) = 1
        /\ isYield(Predecessors(n)[1])
        /\ Len(ecs[n][1].parents) = ParFactor

\* The ambient options set no concurrency limit.
noAmbientLimit == ~ambient.deps \/ ambient.limit = 0

\* C9 (as claimed): with no explicit quota and no ambient limit the
\* resolved ConcurrencyQuota is the number of root nodes of the plan.
C9_QuotaIsRootCount ==
    (resolved /\ Nodes # {} /\ planRes.conc = 0 /\ noAmbientLimit)
        => resources.conc = Cardinality(Roots)

\* The sum, over the nodes 1..k that have predecessors, of the parallel-run
\* factor (1 without the attribute).
RECURSIVE internalFactorSum(_)
internalFactorSum(k) ==
    IF k = 0 THEN 0
    ELSE internalFactorSum(k - 1)
            + (IF plan[k].preds = <<>> THEN 0
               ELSE IF plan[k].run = 0 THEN 1 ELSE plan[k].run)

\* C10: with no explicit quota and an ambient limit L > 0 the resolved
\* ConcurrencyQuota is min(L, S), S the sum of the internal nodes' factors,
\* and 1 when S is 0.
C10_QuotaUnderAmbientLimit ==
    (resolved /\ planRes.conc = 0 /\ ambient.deps /\ ambient.limit > 0)
        => LET S == internalFactorSum(Len(plan))
           IN  resources.conc = IF S = 0 THEN 1 ELSE Min(ambient.limit, S)

\* C10 witness: the sum of the factors exceeds the ambient limit and the
\* quota is clamped to it.
C10_Witness ==
    /\ resolved
    /\ planRes.conc = 0
    /\ ambient.deps
    /\ ambient.limit > 0
    /\ internalFactorSum(Len(plan)) > ambient.limit
    /\ resources.conc = ambient.limit

\* C11 (as claimed): an execution state returned without error has a
\* resolved ConcurrencyQuota greater than 0, whatever quota the plan carried
\* and whatever the ambient limit; every other resolved value fails
\* validation and makes Execute return an error.
C11_ResolvedQuotaPositive ==
    /\ (stage = "done" /\ ret = "results") => resources.conc > 0
    /\ (stage = "done" /\ cursor > Len(plan) /\ resources.conc <= 0) => ret = "error"

\* Nothing of do() has happened: no source goroutine, no dispatcher.Start,
\* no watcher, no closer of the metadata channel.
nothingStarted ==
    /\ runStage = "idle"
    /\ srcPc = <<>>
    /\ dispQuota = 0
    /\ wPc = "idle"
    /\ ~metaClosed

\* C12: when graph construction or validation fails, Execute returns the
\* error and neither a results map nor a metadata channel, and nothing
\* concurrent has been started; whatever has been started belongs to a build
\* that succeeded.
C12_FailedBuildStartsNothing ==
    /\ ret = "error" => (stage = "done" /\ err # "" /\ nothingStarted)
    /\ ret = "panic" => nothingStarted
    /\ ~nothingStarted =>
          (ret = "results" /\ err = "" /\ cursor > Len(plan) /\ validate(resources) = "")

\* C12 witness: Visit failed on a node after sources had been registered,
\* and nothing runs.
C12_Witness ==
    /\ ret = "error"
    /\ cursor <= Len(plan)
    /\ sources # <<>>
    /\ transports # <<>>
    /\ nothingStarted

\* C17: do() starts one goroutine calling Run for every registered source,
\* whatever the resolved quota, and hands the quota to dispatcher.Start
\* only.
C17_SourcesNotThrottled ==
    runStage = "running"
        => /\ Len(srcPc) = Len(sources)
           /\ \A k \in DOMAIN sources : srcPc[k] = "running"
           /\ dispQuota = resources.conc

\* C17 witness: more source goroutines run than the quota handed to the
\* dispatcher.
C17_Witness ==
    /\ runStage = "running"
    /\ resources.conc > 0
    /\ Len(srcPc) > resources.conc
    /\ dispQuota = resources.conc

\* The non-yield node a chain of yields starting at n leads to.
RECURSIVE resolvesTo(_)
resolvesTo(n) == IF plan[n].kind = "yield" THEN resolvesTo(plan[n].preds[1]) ELSE n

\* C20: a yield instantiates nothing (no execution node, no source, no
\* transport); once visited it has added the result of its name to the
\* non-yield node its chain leads to; and a node with a yield among its
\* predecessors has the parents and transports (or the wiring panic) it
\* would have if connected to that non-yield node directly.
C20_YieldsAreTransparent ==
    /\ \A n \in Nodes :
          plan[n].kind = "yield" =>
             /\ n \notin DOMAIN vnodes
             /\ n \notin DOMAIN ecs
             /\ \A k \in DOMAIN sources : sources[k][1] # n
             /\ \A k \in DOMAIN transports :
                   transports[k].from[1] # n /\ transports[k].to[1] # n
             /\ n < cursor =>
                   LET tgt == resolvesTo(n)
                       nm  == plan[n].name
                   IN  /\ plan[tgt].kind # "yield"
                       /\ nm \in DOMAIN results
                       /\ results[nm].node = tgt
                       /\ \E d \in DOMAIN vnodes[tgt][1].downstream :
                             vnodes[tgt][1].downstream[d] = resultRef(nm)
    /\ \A n \in DOMAIN vnodes : \A pi \in DOMAIN plan[n].preds :
          LET p  == resolvesTo(plan[n].preds[pi])
              pc == predCopiesOf(n)
          IN  \A i \in 0..(copiesOf(n) - 1), j \in 0..(pc - 1) :
                 /\ ecs[n][i + 1].parents[(pi - 1) * pc + j + 1] = <<p, i + j>>
                 /\ \E t \in DOMAIN transports :
                       /\ transports[t].from = <<p, i + j>>
                       /\ transports[t].to = <<n, i>>
    /\ \A n \in Nodes :
          (failedAt(n) /\ ret = "panic") =>
             \E pi \in DOMAIN plan[n].preds, i \in 0..(copiesOf(n) - 1),
                j \in 0..(predCopiesOf(n) - 1) :
                   i + j >= Len(vnodes[resolvesTo(plan[n].preds[pi])])

\* C20 witness: a transformation built on a yield, the yield's result
\* attached to the node below it.
C20_Witness ==
    \E n \in DOMAIN vnodes :
        /\ Len(plan[n].preds) = 1
        /\ plan[plan[n].preds[1]].kind = "yield"
        /\ ~isParallelMerge(n)
        /\ plan[plan[n].preds[1]].name \in DOMAIN results
        /\ transports # <<>>

\* The walk has visited every node of the plan without an error.
walked == stage # "idle" /\ cursor > Len(plan)

\* Nothing in the plan consumes node n.
noSuccessor(n) == \A m \in Nodes : \A i \in DOMAIN plan[m].preds : plan[m].preds[i] # n

\* The names of the results attached to node n.
resultsAt(n) == { nm \in DOMAIN results : results[nm].node = n }

\* C21: after a successful build every node without successors is bound to
\* a result: a terminal yield to the result of its yield name (attached to
\* the node its chain leads to), any other terminal node to exactly one
\* result, attached to the first replica of that node.
C21_TerminalNodesHaveResults ==
    walked =>
        \A n \in Nodes :
            noSuccessor(n) =>
                IF plan[n].kind = "yield"
                THEN /\ plan[n].name \in DOMAIN results
                     /\ results[plan[n].name].node = resolvesTo(n)
                ELSE /\ Cardinality(resultsAt(n)) = 1
                     /\ \A nm \in resultsAt(n) :
                           \E d \in DOMAIN vnodes[n][1].downstream :
                              vnodes[n][1].downstream[d] = resultRef(nm)

\* C21 witness: a finished walk over a plan with a terminal yield and a
\* terminal node that is no yield.
C21_Witness ==
    /\ walked
    /\ \E n \in Nodes : noSuccessor(n) /\ plan[n].kind = "yield"
    /\ \E n \in Nodes : noSuccessor(n) /\ plan[n].kind # "yield" /\ resultsAt(n) # {}

\* The node whose side-effect status names the result of terminal node n:
\* the predecessor of a parallel-merge node, the node itself otherwise.
namingNode(n) == IF plan[n].merge # 0 THEN plan[n].preds[1] ELSE n

\* C22: the result generated for a terminal node that is no yield is named
\* by the node's own plan identity when the node (for a parallel-merge
\* node: its predecessor) is side-effecting, and by the default result name
\* otherwise.
C22_GeneratedResultName ==
    walked =>
        \A n \in Nodes :
            (noSuccessor(n) /\ plan[n].kind # "yield") =>
                resultsAt(n) = { IF plan[namingNode(n)].kind = "to"
                                 THEN NodeID(n) ELSE DefaultYieldName }

\* C22 witness: a terminal parallel-merge node behind a side-effecting
\* predecessor, its result named after the merge node.
C22_Witness ==
    /\ walked
    /\ \E n \in Nodes :
          /\ noSuccessor(n)
          /\ plan[n].merge # 0
          /\ plan[plan[n].preds[1]].kind = "to"
          /\ resultsAt(n) = {NodeID(n)}

\* Node n carries the parallel-merge attribute without having exactly one
\* predecessor.
malformedMerge(n) == plan[n].merge # 0 /\ Len(plan[n].preds) # 1

\* C23: a plan that contains a parallel-merge node with a number of
\* predecessors other than one, wherever the node sits, never passes graph
\* construction: Execute does not return results for it and no concurrent
\* work is started.
C23_MalformedMergeRejected ==
    (\E n \in Nodes : malformedMerge(n)) =>
        /\ ~walked
        /\ ret # "results"
        /\ runStage = "idle"

\* The replicas built so far, as (plan node, position) pairs.
replicas == { r \in (DOMAIN vnodes) \X (1..ParFactor) : r[2] <= Len(vnodes[r[1]]) }

\* C24: the id of every replica is the one derived from its plan node and
\* its replica index, no two replicas of the build share an id, and the ids
\* registered as sources are pairwise distinct.
C24_DatasetIDsUnique ==
    /\ \A r \in replicas : vnodes[r[1]][r[2]].id = datasetIDFromNodeID(r[1], r[2] - 1)
    /\ \A r1 \in replicas, r2 \in replicas :
          r1 # r2 => vnodes[r1[1]][r1[2]].id # vnodes[r2[1]][r2[2]].id
    /\ \A k1 \in DOMAIN sources, k2 \in DOMAIN sources :
          k1 # k2 => sources[k1] # sources[k2]

\* C24 witness: a finished walk with a replicated source and a replicated
\* transformation.
C24_Witness ==
    /\ walked
    /\ \E n \in DOMAIN vnodes, m \in DOMAIN vnodes :
          /\ Len(vnodes[n]) > 1 /\ vnodes[n][1].kind = "source"
          /\ Len(vnodes[m]) > 1 /\ vnodes[m][1].kind = "dataset"

\* Node n is no yield and no constructor is registered for its kind: no
\* source constructor for a leaf, no transformation constructor for a node
\* with predecessors.
unregistered(n) ==
    /\ plan[n].kind # "yield"
    /\ IF plan[n].preds = <<>> THEN plan[n].kind # "from"
       ELSE plan[n].kind \notin {"map", "to", "merge", "diff"}

\* C25: the walk never gets past a node whose kind has no registered
\* constructor; the visit of such a node fails with the unsupported-kind
\* error of its position; and a plan containing one never yields results
\* or starts execution, whatever was built for the nodes visited before.
C25_UnsupportedKindFailsBuild ==
    \A n \in Nodes :
        unregistered(n) =>
            /\ n >= cursor
            /\ failedAt(n) =>
                  /\ ret = "error"
                  /\ err = IF plan[n].preds = <<>> THEN "unsupported source kind"
                           ELSE "unsupported procedure"
            /\ ret # "results"
            /\ runStage = "idle"

\* C25 witness: the walk has built a source and then failed on an internal
\* node of an unregistered kind.
C25_Witness ==
    \E n \in Nodes :
        /\ unregistered(n)
        /\ plan[n].preds # <<>>
        /\ failedAt(n)
        /\ err = "unsupported procedure"
        /\ sources # <<>>

\* The transports that feed the replica with id `id`, in creation order.
feeding(id) == SelectSeq(transports, LAMBDA t : t.to = id)

\* The replicas that have transport t among their downstream consumers.
producersOf(t) ==
    { r \in replicas :
        \E d \in DOMAIN vnodes[r[1]][r[2]].downstream :
            vnodes[r[1]][r[2]].downstream[d] = transportRef(t) }

\* C27: for every replica of every internal node built, the transports
\* created for it are as many as its parents and the k-th of them is
\* attached downstream of exactly the replica whose id is parent k; every
\* transport sits in the execution state's list at its own index, and a
\* node has copies x predecessors x predCopies of them.
C27_TransportsMatchParents ==
    /\ \A t \in DOMAIN transports : transports[t].idx = t
    /\ \A n \in DOMAIN vnodes :
          plan[n].preds # <<>> =>
             /\ Cardinality({ t \in DOMAIN transports : transports[t].to[1] = n })
                   = copiesOf(n) * Len(plan[n].preds) * predCopiesOf(n)
             /\ \A i \in 1..Len(vnodes[n]) :
                   LET ts == feeding(vnodes[n][i].id)
                       ps == ecs[n][i].parents
                   IN  /\ Len(ts) = Len(ps)
                       /\ \A k \in DOMAIN ts :
                             /\ ts[k].from = ps[k]
                             /\ \A r \in producersOf(ts[k]) :
                                   vnodes[r[1]][r[2]].id = ps[k]
                             /\ producersOf(ts[k]) # {}

\* C27 witness: a finished walk with a fan-in node fed by two transports
\* from different replicas.
C27_Witness ==
    /\ walked
    /\ \E n \in DOMAIN vnodes :
          LET ts == feeding(vnodes[n][1].id)
          IN  /\ Len(ts) > 1
              /\ ts[1].from # ts[2].from

\* The resources have been chosen for the plan at hand.
resourcesChosen == walked /\ stage \in {"validate", "done"}

\* C28: defaulting leaves a quota the plan sets as it is (a non-zero
\* ConcurrencyQuota is not clamped to the ambient concurrency limit, a
\* non-zero MemoryBytesQuota is kept), and an unset MemoryBytesQuota
\* becomes the ambient default memory limit (0 when the context carries no
\* execution options).
C28_SetQuotasAreKept ==
    resourcesChosen =>
        /\ planRes.conc # 0 => resources.conc = planRes.conc
        /\ planRes.mem # 0 => resources.mem = planRes.mem
        /\ planRes.mem = 0 =>
              resources.mem = IF ambient.deps THEN ambient.mem ELSE 0

\* C28 witness: a plan whose ConcurrencyQuota exceeds the ambient limit and
\* whose MemoryBytesQuota is unset.
C28_Witness ==
    /\ resourcesChosen
    /\ ambient.deps
    /\ ambient.limit > 0
    /\ planRes.conc > ambient.limit
    /\ resources.conc = planRes.conc
    /\ planRes.mem = 0
    /\ resources.mem = ambient.mem
    /\ ambient.mem # 0

\* C40: a plan of at least one node that has been built without error has
\* at least one result, and so has the results map Execute returns for it;
\* an empty results map is returned for the plan without nodes only.
C40_BuiltPlanHasResult ==
    /\ (walked /\ plan # <<>>) => DOMAIN results # {}
    /\ (ret = "results" /\ DOMAIN results = {}) => plan = <<>>

\* C40 witness: Execute has returned the results of a plan of several
\* nodes.
C40_Witness ==
    /\ ret = "results"
    /\ Len(plan) > 1
    /\ DOMAIN results # {}

(***************************************************************************)
(* The diff transformation of package testing (src/arrow/allocator.go).    *)
(* A table is a group key and its rows; a row is the value of its one      *)
(* value column.                                                           *)
(***************************************************************************)
wantID == "want"

gotID == "got"

ParentIDs == {wantID, gotID}

Keys == 1..MaxKeys

Vals == {0, 1}

RECURSIVE SeqsUpTo(_)
SeqsUpTo(k) ==
    IF k = 0 THEN { <<>> }
    ELSE SeqsUpTo(k - 1)
            \cup { Append(r, v) : r \in { q \in SeqsUpTo(k - 1) : Len(q) = k - 1 }, v \in Vals }

\* The tables a parent can send.
Tables == [key : Keys, rows : SeqsUpTo(MaxRows)]

\* The errors a parent can finish with; "nil" is no error.
Errors == {"e1", "e2"}

\* &tableBuffer{}: the empty placeholder.  It has no columns, so that its
\* Release releases nothing.
emptyBuffer == [id |-> "", rows |-> <<>>, released |-> 0]

\* copyTable: the buffer allocated for a delivered table; released counts
\* the calls of its Release.
copyTable(id, tbl) == [id |-> id, rows |-> tbl.rows, released |-> 0]

\* rowEqual on the one value column.
rowEqual(want, got, i) == want.rows[i] = got.rows[i]

diffRow(marker, buf, i) == [diff |-> marker, v |-> buf.rows[i]]

RECURSIVE differingRows(_, _, _, _)
differingRows(want, got, i, sz) ==
    IF i > sz THEN <<>>
    ELSE (IF rowEqual(want, got, i) THEN <<>>
          ELSE << diffRow("-", want, i), diffRow("+", got, i) >>)
            \o differingRows(want, got, i + 1, sz)

\* diffRows that writes the '+' row of a differing index before its '-' row.
diffRowsPlusFirst(want, got) ==
    LET sz == IF Len(got.rows) < Len(want.rows) THEN Len(got.rows) ELSE Len(want.rows)
        D  == { i \in 1..sz : ~rowEqual(want, got, i) }
        nth(j) == CHOOSE i \in D : Cardinality({ q \in D : q < i }) = j - 1
    IN  [j \in 1..(2 * Cardinality(D)) |->
            IF j % 2 = 1 THEN diffRow("+", got, nth((j + 1) \div 2))
            ELSE diffRow("-", want, nth(j \div 2))]
            \o [i \in 1..(Len(want.rows) - sz) |-> diffRow("-", want, sz + i)]
            \o [i \in 1..(Len(got.rows) - sz) |-> diffRow("+", got, sz + i)]

\* The rows diff appends to the output table of want and got.
diffRows(want, got) ==
    LET sz == IF Len(got.rows) < Len(want.rows) THEN Len(got.rows) ELSE Len(want.rows)
    IN  differingRows(want, got, 1, sz)
            \o [i \in 1..(Len(want.rows) - sz) |-> diffRow("-", want, sz + i)]
            \o [i \in 1..(Len(got.rows) - sz) |-> diffRow("+", got, sz + i)]

\* The tables are of one size and equal row by row.
tablesEqual(want, got) ==
    /\ Len(want.rows) = Len(got.rows)
    /\ \A i \in 1..Len(want.rows) : rowEqual(want, got, i)

\* DiffTransformation.diff: the error returned and the builder cache after.
diff(key, want, got, bs) ==
    IF tablesEqual(want, got) THEN [err |-> "nil", builders |-> bs]
    ELSE IF key \in DOMAIN bs THEN [err |-> "duplicate table key", builders |-> bs]
    ELSE [err |-> "nil", builders |-> bs @@ (key :> diffRows(want, got))]

\* inputCache.Delete(key): the position of the entry, 0 when there is none.
cacheFind(cache, key) ==
    IF \E k \in DOMAIN cache : cache[k].key = key
    THEN CHOOSE k \in DOMAIN cache : cache[k].key = key
    ELSE 0

cacheRemove(cache, k) == [j \in 1..(Len(cache) - 1) |-> IF j < k THEN cache[j] ELSE cache[j + 1]]

\* inputCache.Set(key, buf)
cacheSet(cache, key, buf) == Append(cache, [key |-> key, buf |-> buf])

\* The swap at the end of Process: the operands of diff, want first, given
\* the buffer of the delivered table and the buffer it is compared with.
swapOperands(want, got) == IF want.id # wantID THEN <<got, want>> ELSE <<want, got>>

\* DiffTransformation.Process(id, tbl): the state after, the error returned
\* and the operands handed to diff (none when diff is not called).
process(id, tbl, ps, cache, bs) ==
    IF ps[id].finished
    THEN [ret |-> "nil", cache |-> cache, builders |-> bs, operands |-> <<>>]
    ELSE LET want == copyTable(id, tbl)
             k    == cacheFind(cache, tbl.key)
         IN  IF k = 0
             THEN IF ~ps[id].finished
                  THEN [ret |-> "nil", cache |-> cacheSet(cache, tbl.key, want),
                        builders |-> bs, operands |-> <<>>]
                  ELSE LET ops == swapOperands(want, emptyBuffer)
                           d   == diff(tbl.key, ops[1], ops[2], bs)
                       IN  [ret |-> d.err, cache |-> cache, builders |-> d.builders,
                            operands |-> ops]
             ELSE LET ops == swapOperands(want, cache[k].buf)
                      d   == diff(tbl.key, ops[1], ops[2], bs)
                  IN  [ret |-> d.err, cache |-> cacheRemove(cache, k),
                       builders |-> d.builders, operands |-> ops]

\* A parent delivers a table.  Within one edge Finish is the last call, so a
\* parent that has finished delivers nothing more.
Process ==
    /\ nProcess < MaxProcess
    /\ \E id \in ParentIDs, tbl \in Tables :
          /\ ~parentState[id].finished
          /\ LET o == process(id, tbl, parentState, inputCache, builders)
             IN  /\ inputCache' = o.cache
                 /\ builders' = o.builders
                 /\ lastRet' = o.ret
    /\ nProcess' = nProcess + 1
    /\ UNCHANGED <<parentState, dFinish, reported, dWatermark, dProcessing>>

\* t.inputCache.Range with the flush of Finish as its callback: every
\* buffered table is diffed against the empty placeholder, up to the first
\* error.  diff releases its operands when it returns, with or without an
\* error; Range removes nothing from the cache.
RECURSIVE flush(_, _, _)
flush(cache, k, bs) ==
    IF k > Len(cache) THEN [err |-> "nil", builders |-> bs, cache |-> cache]
    ELSE LET obj == cache[k].buf
             d   == IF obj.id = wantID
                    THEN diff(cache[k].key, obj, emptyBuffer, bs)
                    ELSE diff(cache[k].key, emptyBuffer, obj, bs)
             rel == [cache EXCEPT ![k].buf.released = @ + 1]
         IN  IF d.err # "nil" THEN [err |-> d.err, builders |-> d.builders, cache |-> rel]
             ELSE flush(rel, k + 1, d.builders)

\* The calls of t.d.Finish one call of DiffTransformation.Finish(id, err)
\* makes, given whether every parent has finished and what the flush
\* returned.
finishCalls(e, allFinished, flushErr) ==
    (IF e # "nil" THEN <<e>> ELSE <<>>) \o (IF allFinished THEN <<flushErr>> ELSE <<>>)

\* DiffTransformation.Finish(id, err)
Finish ==
    \E id \in ParentIDs, e \in Errors \cup {"nil"} :
        /\ ~parentState[id].finished
        /\ LET ps  == [parentState EXCEPT ![id].finished = TRUE]
               all == \A q \in ParentIDs : ps[q].finished
               f   == flush(inputCache, 1, builders)
           IN  /\ parentState' = ps
               /\ builders' = IF all THEN f.builders ELSE builders
               /\ inputCache' = IF all THEN f.cache ELSE inputCache
               /\ dFinish' = dFinish \o finishCalls(e, all, f.err)
        /\ reported' = Append(reported, e)
        /\ UNCHANGED <<nProcess, lastRet, dWatermark, dProcessing>>

\* NewDiffTransformation
InitDiff ==
    /\ parentState = [id \in ParentIDs |-> [mark |-> 0, processing |-> 0, finished |-> FALSE]]
    /\ inputCache = <<>>
    /\ builders = <<>>
    /\ dFinish = <<>>
    /\ reported = <<>>
    /\ nProcess = 0
    /\ lastRet = ""
    /\ dWatermark = <<>>
    /\ dProcessing = <<>>

NextDiff ==
    \/ Process /\ UNCHANGED <<buildVars, runVars, opVars>>
    \/ Finish /\ UNCHANGED <<buildVars, runVars, opVars>>

InitDiffOnly == InitDiff /\ BuildIdle /\ RunIdle /\ OpIdle

SpecDiff == InitDiffOnly /\ [][NextDiff]_vars

(***************************************************************************)
(* Properties of DiffTransformation.Finish                                 *)
(***************************************************************************)
bothFinished == \A id \in ParentIDs : parentState[id].finished

\* The non-nil errors the parents reported, in order.
reportedErrors == SelectSeq(reported, LAMBDA e : e # "nil")

\* C3: once each of the two parents has called Finish (with or without an
\* error, in either order) exactly one Finish has been forwarded to the
\* dataset, and never more than one.
C3_ExactlyOneFinishForwarded ==
    /\ Len(dFinish) <= 1
    /\ bothFinished => Len(dFinish) = 1

\* C4: no Finish is forwarded to the dataset while a parent has yet to call
\* Finish, whatever error the first finishing parent reported.
C4_NoFinishBeforeBothParents ==
    (\E id \in ParentIDs : ~parentState[id].finished) => dFinish = <<>>

\* C5: once both parents have finished and one of them reported an error,
\* the Finish the dataset is left with (the last one forwarded) carries the
\* first error a parent reported.
C5_FinishCarriesFirstError ==
    (bothFinished /\ reportedErrors # <<>>)
        => /\ dFinish # <<>>
           /\ dFinish[Len(dFinish)] = reportedErrors[1]

\* C30: once a parent has finished, a table delivered by the other parent
\* is never put into the input cache: it is diffed at once, against its
\* buffered counterpart or, when none is buffered, against an empty table.
C30_NoCachingAfterOtherFinished ==
    [][ (nProcess' = nProcess + 1 /\ \E id \in ParentIDs : parentState[id].finished)
            => Len(inputCache') <= Len(inputCache) ]_vars

\* C33: whatever table a parent that has not finished delivers next, the
\* operands Process hands to diff are, first, a buffer of the want parent or
\* the empty placeholder and, second, a buffer of the got parent or the
\* empty placeholder: two tables of one parent are never compared.
C33_OperandsFromBothParents ==
    \A id \in ParentIDs, tbl \in Tables :
        ~parentState[id].finished =>
            LET ops == process(id, tbl, parentState, inputCache, builders).operands
            IN  ops # <<>> => /\ ops[1].id \in {wantID, emptyBuffer.id}
                              /\ ops[2].id \in {gotID, emptyBuffer.id}

\* The step in which the last of the two parents finishes.
lastFinish == ~bothFinished /\ bothFinished'

\* One row for every row of the buffer, marked '-' for a table of the want
\* parent and '+' for a table of the got parent.
markedRows(buf) ==
    [i \in 1..Len(buf.rows) |-> diffRow(IF buf.id = wantID THEN "-" ELSE "+", buf, i)]

\* C31: in the step in which the last parent finishes, every table still in
\* the input cache is diffed against an empty table, which gives one row for
\* each of its rows, marked '-' for a want table and '+' for a got table, and
\* no Finish has been forwarded to the dataset before this flush: the one
\* Finish of the dataset follows it.
C31_FlushBeforeFinish ==
    [][ lastFinish =>
            /\ dFinish = <<>>
            /\ Len(dFinish') = 1
            /\ \A k \in DOMAIN inputCache :
                  inputCache[k].buf.rows # <<>> =>
                      /\ inputCache[k].key \in DOMAIN builders'
                      /\ builders'[inputCache[k].key] = markedRows(inputCache[k].buf)
      ]_vars

\* C34: no table buffer is released twice, and once both parents have
\* finished every buffer Process put into the input cache has been released
\* once.  (A buffer Process hands to diff at once is released by diff and
\* kept nowhere.)
C34_BuffersReleasedOnce ==
    /\ \A k \in DOMAIN inputCache : inputCache[k].buf.released <= 1
    /\ bothFinished => \A k \in DOMAIN inputCache : inputCache[k].buf.released = 1

(***************************************************************************)
(* DiffTransformation.UpdateWatermark and UpdateProcessingTime             *)
(***************************************************************************)
\* The marks a parent reports (execute.Time); a parent starts at 0.
Marks == 0..MaxMark

\* minMark with the comparison of the loop turned round: min never moves.
minMarkFlipped(ms) == MaxInt64

\* min := MaxInt64; for each parent state: if its mark < min { min = mark },
\* over the marks ms of the two parents.
minMark(ms) ==
    LET m1 == IF ms[wantID] < MaxInt64 THEN ms[wantID] ELSE MaxInt64
    IN  IF ms[gotID] < m1 THEN ms[gotID] ELSE m1

\* DiffTransformation.UpdateWatermark(id, mark)
UpdateWatermark ==
    \E id \in ParentIDs, mark \in Marks :
        /\ parentState' = [parentState EXCEPT ![id].mark = mark]
        /\ dWatermark' = << minMark([q \in ParentIDs |-> parentState'[q].mark]) >>
        /\ UNCHANGED <<inputCache, builders, dFinish, reported, nProcess, lastRet,
                       dProcessing>>

\* DiffTransformation.UpdateProcessingTime(id, mark)
UpdateProcessingTime ==
    \E id \in ParentIDs, mark \in Marks :
        /\ parentState' = [parentState EXCEPT ![id].processing = mark]
        /\ dProcessing' = << minMark([q \in ParentIDs |-> parentState'[q].processing]) >>
        /\ UNCHANGED <<inputCache, builders, dFinish, reported, nProcess, lastRet,
                       dWatermark>>

NextMark ==
    \/ UpdateWatermark /\ UNCHANGED <<buildVars, runVars, opVars>>
    \/ UpdateProcessingTime /\ UNCHANGED <<buildVars, runVars, opVars>>

\* The diff transformation under watermark and processing-time updates.
SpecMark == InitDiffOnly /\ [][NextMark]_vars

\* C19: the watermark last forwarded to the dataset is the minimum of the
\* two parents' last reported marks, a parent that has not reported
\* counting with its initial mark, so one parent alone never moves it past
\* the other's mark; the processing time obeys the same rule.
C19_ForwardsMinimumMark ==
    /\ dWatermark # <<>> =>
          /\ dWatermark[1] = Min(parentState[wantID].mark, parentState[gotID].mark)
          /\ \A id \in ParentIDs : dWatermark[1] <= parentState[id].mark
    /\ dProcessing # <<>> =>
          /\ dProcessing[1] =
                Min(parentState[wantID].processing, parentState[gotID].processing)
          /\ \A id \in ParentIDs : dProcessing[1] <= parentState[id].processing

\* C19 witness: the parents reported marks t1 > t2 > 0 and the dataset was
\* handed t2; for the processing time only one parent reported, and the
\* dataset stays at the other's initial value.
C19_Witness ==
    /\ parentState[wantID].mark = MaxMark
    /\ parentState[gotID].mark = 1
    /\ dWatermark = <<1>>
    /\ parentState[wantID].processing = MaxMark
    /\ parentState[gotID].processing = 0
    /\ dProcessing = <<0>>

(***************************************************************************)
(* The orchestrator: executionState.do and executionState.abort            *)
(* (executor.go 418-475).  The run starts from an execution state that     *)
(* createExecutionState returned: some sources, the transports between the *)
(* nodes, and the results.  The dispatcher, the transports, the sources    *)
(* and the results are the executor's collaborators: the dispatcher keeps  *)
(* the first error a protocol call fails with, offers it once on Err() and *)
(* returns it from Stop(); a result keeps the first error it is aborted    *)
(* with.                                                                   *)
(***************************************************************************)
ctxCanceled == "context canceled"

\* The errors a transport's protocol call can fail with.
TransportErrors == {"e1"}

SourceIDs == 1..nSrc

TransportIDs == 1..nTr

\* The state createExecutionState hands to do().
InitRun ==
    /\ nSrc \in 1..MaxUnits
    /\ nTr \in 0..(MaxUnits - nSrc)
    /\ isMeta \in [1..nSrc -> BOOLEAN]
    /\ runStage = "validated"
    /\ srcPc = [s \in 1..nSrc |-> "idle"]
    /\ metaQ = <<>>
    /\ metaClosed = FALSE
    /\ dispStopped = FALSE
    /\ dispErr = "nil"
    /\ errC = "nil"
    /\ tFinished = [t \in 1..nTr |-> FALSE]
    /\ ctxErr = "nil"
    /\ cancelledBy = "nobody"
    /\ resErr = [r \in 1..MaxResults |-> "nil"]
    /\ wPc = "idle"
    /\ wIdx = 1
    /\ wErr = "nil"
    /\ abortArgs = {}
    /\ earlyCancel = FALSE
    /\ dispQuota = 0
    /\ panicked = {}

\* do(): one goroutine per source, dispatcher.Start, the watcher goroutine
\* and the goroutine that closes the metadata channel.  The quota only sizes
\* the dispatcher's pool of workers, whose scheduling is not part of this
\* model: the runs are explored with one quota.
Do ==
    /\ runStage = "validated"
    /\ launch(nSrc, nTr, isMeta, resErr, MaxLimit)

\* The error es.recover() makes of a panic of src.Run.
panicErr == "panic"

\* abortSteps with the context cancelled before the results are marked.
abortStepsCancelFirst == <<"abortCancel", "abortResults">>

\* abort(err): for _, r := range es.results { r.abort(err) }, then
\* es.cancel().
abortSteps == <<"abortResults", "abortCancel">>

\* Where a goroutine in abort goes after the step at pc; `after` is where it
\* goes on when abort returns.
nextAbortPc(pc, after) == IF pc = abortSteps[1] THEN abortSteps[2] ELSE after

\* result.abort(err): a result keeps the first error it is aborted with.
resultAbort(old, e) == IF old = "nil" THEN e ELSE old

\* The step of abort(e) that marks the results.
markResults(e) == resErr' = [r \in DOMAIN resErr |-> resultAbort(resErr[r], e)]

\* The step of abort that calls es.cancel().
cancelRun ==
    /\ ctxErr' = IF ctxErr = "nil" THEN ctxCanceled ELSE ctxErr
    /\ cancelledBy' = IF ctxErr = "nil" THEN "abort" ELSE cancelledBy

\* src.Run(ctx) returns.
SourceRunReturns(s) ==
    /\ srcPc[s] = "running"
    /\ srcPc' = [srcPc EXCEPT ![s] = "ran"]
    /\ UNCHANGED <<nSrc, nTr, isMeta, runStage, metaQ, metaClosed, dispStopped,
                  dispErr, errC, tFinished, ctxErr, cancelledBy, resErr, wPc,
                  wIdx, wErr, abortArgs, earlyCancel, dispQuota, panicked>>

\* metaChCap with room for one source fewer.
metaChCapOneShort == nSrc - 1

\* es.metaCh = make(chan metadata.Metadata, len(es.sources))
metaChCap == nSrc

\* The rest of a source's goroutine: a MetadataNode sends its metadata on
\* es.metaCh, which blocks while the channel is full, then wg.Done().
SourceExits(s) ==
    /\ srcPc[s] = "ran"
    /\ isMeta[s] => (Len(metaQ) < metaChCap /\ ~metaClosed)
    /\ metaQ' = IF isMeta[s] THEN Append(metaQ, s) ELSE metaQ
    /\ srcPc' = [srcPc EXCEPT ![s] = "done"]
    /\ UNCHANGED <<nSrc, nTr, isMeta, runStage, metaClosed, dispStopped,
                  dispErr, errC, tFinished, ctxErr, cancelledBy, resErr, wPc,
                  wIdx, wErr, abortArgs, earlyCancel, dispQuota, panicked>>

\* src.Run(ctx) panics: the deferred es.recover() takes the panic and calls
\* es.abort with it; the metadata send is skipped.
SourcePanics(s) ==
    /\ srcPc[s] = "running"
    /\ srcPc' = [srcPc EXCEPT ![s] = abortSteps[1]]
    /\ panicked' = panicked \cup {s}
    /\ abortArgs' = abortArgs \cup {panicErr}
    /\ UNCHANGED <<nSrc, nTr, isMeta, runStage, metaQ, metaClosed, dispStopped,
                  dispErr, errC, tFinished, ctxErr, cancelledBy, resErr, wPc,
                  wIdx, wErr, earlyCancel, dispQuota>>

\* panicDonePc with wg.Done() not deferred: the goroutine ends without it.
panicDonePcNoDone == "gone"

\* Where a source's goroutine is after es.recover(): the deferred wg.Done()
\* has run.
panicDonePc == "done"

\* The abort of es.recover(), marking the results.
SourceAbortResults(s) ==
    /\ srcPc[s] = "abortResults"
    /\ markResults(panicErr)
    /\ srcPc' = [srcPc EXCEPT ![s] = nextAbortPc("abortResults", panicDonePc)]
    /\ UNCHANGED <<nSrc, nTr, isMeta, runStage, metaQ, metaClosed, dispStopped,
                  dispErr, errC, tFinished, ctxErr, cancelledBy, wPc, wIdx,
                  wErr, abortArgs, earlyCancel, dispQuota, panicked>>

\* The abort of es.recover(), cancelling the run context.
SourceAbortCancel(s) ==
    /\ srcPc[s] = "abortCancel"
    /\ cancelRun
    /\ srcPc' = [srcPc EXCEPT ![s] = nextAbortPc("abortCancel", panicDonePc)]
    /\ UNCHANGED <<nSrc, nTr, isMeta, runStage, metaQ, metaClosed, dispStopped,
                  dispErr, errC, tFinished, resErr, wPc, wIdx, wErr,
                  abortArgs, earlyCancel, dispQuota, panicked>>

\* A transport's consumer has drained and finished: Finished() fires.
TransportFinishes(t) ==
    /\ runStage = "running"
    /\ ~dispStopped
    /\ ~tFinished[t]
    /\ tFinished' = [tFinished EXCEPT ![t] = TRUE]
    /\ UNCHANGED <<nSrc, nTr, isMeta, runStage, srcPc, metaQ, metaClosed,
                  dispStopped, dispErr, errC, ctxErr, cancelledBy, resErr,
                  wPc, wIdx, wErr, abortArgs, earlyCancel, dispQuota, panicked>>

\* A protocol call of a transport fails on a dispatcher worker: the
\* dispatcher keeps the first such error and offers it on Err().
TransportFails(t, e) ==
    /\ runStage = "running"
    /\ ~dispStopped
    /\ ~tFinished[t]
    /\ dispErr = "nil"
    /\ dispErr' = e
    /\ errC' = e
    /\ UNCHANGED <<nSrc, nTr, isMeta, runStage, srcPc, metaQ, metaClosed,
                  dispStopped, tFinished, ctxErr, cancelledBy, resErr, wPc,
                  wIdx, wErr, abortArgs, earlyCancel, dispQuota, panicked>>

\* The caller cancels the context handed to Execute, or its deadline passes.
ExternalCancel ==
    /\ ctxErr = "nil"
    /\ ctxErr' = ctxCanceled
    /\ cancelledBy' = "caller"
    /\ earlyCancel' = (runStage = "running" /\ wPc # "done")
    /\ UNCHANGED <<nSrc, nTr, isMeta, runStage, srcPc, metaQ, metaClosed,
                  dispStopped, dispErr, errC, tFinished, resErr, wPc, wIdx,
                  wErr, abortArgs, dispQuota, panicked>>

\* The watcher enters es.abort(e).
enterAbort(e) ==
    /\ wPc' = abortSteps[1]
    /\ wErr' = e
    /\ abortArgs' = abortArgs \cup {e}

\* finishedReady with the wait left out.
finishedReadyAlways(t) == TRUE

\* case <-t.Finished(): ready once the transport has finished.
finishedReady(t) == tFinished[t]

\* ctxDoneReady with the case left out of the select.
ctxDoneReadyNever == FALSE

\* case <-es.ctx.Done(): ready once the run context is cancelled.
ctxDoneReady == ctxErr # "nil"

\* One turn of the watcher's loop over es.transports: the select on
\* t.Finished(), es.ctx.Done() and es.dispatcher.Err().  Go chooses among
\* the ready cases.
WatcherSelect ==
    /\ wPc = "loop"
    /\ wIdx <= nTr
    /\ wIdx' = wIdx + 1
    /\ \/ /\ finishedReady(wIdx)
          /\ UNCHANGED <<wPc, wErr, abortArgs, errC>>
       \/ /\ ctxDoneReady
          /\ enterAbort(ctxErr)
          /\ UNCHANGED errC
       \/ /\ errC # "nil"
          /\ errC' = "nil"
          /\ enterAbort(errC)
    /\ UNCHANGED <<nSrc, nTr, isMeta, runStage, srcPc, metaQ, metaClosed,
                  dispStopped, dispErr, tFinished, ctxErr, cancelledBy,
                  resErr, earlyCancel, dispQuota, panicked>>

\* stopAborts with abort called whatever Stop() returns.
stopAbortsAlways(e) == TRUE

\* stopAborts with the error of Stop() dropped.
stopAbortsNever(e) == FALSE

\* After the loop: err := es.dispatcher.Stop(); if err != nil { es.abort(err) }
stopAborts(e) == e # "nil"

WatcherStop ==
    /\ wPc = "loop"
    /\ wIdx > nTr
    /\ dispStopped' = TRUE
    /\ IF stopAborts(dispErr)
       THEN enterAbort(dispErr)
       ELSE wPc' = "done" /\ UNCHANGED <<wErr, abortArgs>>
    /\ UNCHANGED <<nSrc, nTr, isMeta, runStage, srcPc, metaQ, metaClosed,
                  dispErr, errC, tFinished, ctxErr, cancelledBy, resErr, wIdx,
                  earlyCancel, dispQuota, panicked>>

\* Where the watcher goes on when abort returns: the next turn of the loop,
\* or its exit after Stop().
afterWatcherAbort == IF dispStopped THEN "done" ELSE "loop"

\* The argument of the watcher's abort is gone when abort returns.
wErrAfter(pc) == IF pc \in {"loop", "done"} THEN "nil" ELSE wErr

\* The watcher's abort, marking the results.
AbortResults ==
    /\ wPc = "abortResults"
    /\ markResults(wErr)
    /\ wPc' = nextAbortPc("abortResults", afterWatcherAbort)
    /\ wErr' = wErrAfter(wPc')
    /\ UNCHANGED <<nSrc, nTr, isMeta, runStage, srcPc, metaQ, metaClosed,
                  dispStopped, dispErr, errC, tFinished, ctxErr, cancelledBy,
                  wIdx, abortArgs, earlyCancel, dispQuota, panicked>>

\* The watcher's abort, cancelling the run context.
AbortCancel ==
    /\ wPc = "abortCancel"
    /\ cancelRun
    /\ wPc' = nextAbortPc("abortCancel", afterWatcherAbort)
    /\ wErr' = wErrAfter(wPc')
    /\ UNCHANGED <<nSrc, nTr, isMeta, runStage, srcPc, metaQ, metaClosed,
                  dispStopped, dispErr, errC, tFinished, resErr, wIdx,
                  abortArgs, earlyCancel, dispQuota, panicked>>

\* closerReady with the source goroutines not added to the WaitGroup.
closerReadyWatcherOnly == wPc = "done"

\* wg.Wait() returns: every source goroutine and the watcher have called
\* wg.Done().
closerReady == wPc = "done" /\ \A s \in SourceIDs : srcPc[s] = "done"

\* The last goroutine of do(): wg.Wait(), then the deferred
\* close(es.metaCh).
CloseMetadata ==
    /\ runStage = "running"
    /\ ~metaClosed
    /\ closerReady
    /\ metaClosed' = TRUE
    /\ UNCHANGED <<nSrc, nTr, isMeta, runStage, srcPc, metaQ, dispStopped,
                  dispErr, errC, tFinished, ctxErr, cancelledBy, resErr, wPc,
                  wIdx, wErr, abortArgs, earlyCancel, dispQuota, panicked>>

\* The steps of the watcher goroutine.
Watcher ==
    (WatcherSelect \/ WatcherStop \/ AbortResults \/ AbortCancel)
        /\ UNCHANGED <<buildVars, diffVars, opVars>>

\* The steps of a source's goroutine once src.Run has ended.
SourceUnwinds ==
    (\E s \in SourceIDs : SourceExits(s) \/ SourceAbortResults(s) \/ SourceAbortCancel(s))
        /\ UNCHANGED <<buildVars, diffVars, opVars>>

NextRun ==
    \/ Do /\ UNCHANGED <<buildVars, diffVars, opVars>>
    \/ \E s \in SourceIDs : SourceRunReturns(s) /\ UNCHANGED <<buildVars, diffVars, opVars>>
    \/ \E s \in SourceIDs : SourceExits(s) /\ UNCHANGED <<buildVars, diffVars, opVars>>
    \/ \E s \in SourceIDs : SourcePanics(s) /\ UNCHANGED <<buildVars, diffVars, opVars>>
    \/ \E s \in SourceIDs : SourceAbortResults(s) /\ UNCHANGED <<buildVars, diffVars, opVars>>
    \/ \E s \in SourceIDs : SourceAbortCancel(s) /\ UNCHANGED <<buildVars, diffVars, opVars>>
    \/ \E t \in TransportIDs : TransportFinishes(t) /\ UNCHANGED <<buildVars, diffVars, opVars>>
    \/ \E t \in TransportIDs, e \in TransportErrors :
          TransportFails(t, e) /\ UNCHANGED <<buildVars, diffVars, opVars>>
    \/ ExternalCancel /\ UNCHANGED <<buildVars, diffVars, opVars>>
    \/ WatcherSelect /\ UNCHANGED <<buildVars, diffVars, opVars>>
    \/ WatcherStop /\ UNCHANGED <<buildVars, diffVars, opVars>>
    \/ AbortResults /\ UNCHANGED <<buildVars, diffVars, opVars>>
    \/ AbortCancel /\ UNCHANGED <<buildVars, diffVars, opVars>>
    \/ CloseMetadata /\ UNCHANGED <<buildVars, diffVars, opVars>>

InitRunOnly == InitRun /\ BuildIdle /\ DiffIdle /\ OpIdle

SpecRun == InitRunOnly /\ [][NextRun]_vars

\* The Go scheduler runs every goroutine that can take a step: the one
\* calling do(), the watcher, the source goroutines once Run has ended, and
\* the closer of the metadata channel.
FairRun ==
    /\ InitRunOnly
    /\ [][NextRun]_vars
    /\ WF_vars(Do /\ UNCHANGED <<buildVars, diffVars, opVars>>)
    /\ WF_vars(Watcher)
    /\ WF_vars(SourceUnwinds)
    /\ WF_vars(CloseMetadata /\ UNCHANGED <<buildVars, diffVars, opVars>>)

(***************************************************************************)
(* Properties of the orchestrator                                          *)
(***************************************************************************)
allResultsFailed == \A r \in DOMAIN resErr : resErr[r] # "nil"

\* C1: once a transport's protocol call has failed in a started run (the
\* dispatcher holds the error, to deliver it on Err() or return it from
\* Stop()), eventually abort has been invoked with that error, every result
\* is marked failed and the run context is cancelled.
C1_TransportErrorLeadsToAbort ==
    \A e \in TransportErrors :
        (dispErr = e) ~> (e \in abortArgs /\ allResultsFailed /\ ctxErr # "nil")

\* C1 witness: the watcher has left its loop on Finished() signals alone,
\* taken the error from Stop(), and finished the abort.
C1_Witness ==
    /\ wPc = "done"
    /\ dispErr # "nil"
    /\ errC = dispErr
    /\ abortArgs = {dispErr}
    /\ allResultsFailed
    /\ cancelledBy = "abort"

\* C2: in a started run whose context was cancelled from outside before the
\* watcher exited, the watcher has invoked abort with the context's error
\* by the time it exits, and every result is marked failed.
C2_CancelLeadsToAbort ==
    (wPc = "done" /\ earlyCancel)
        => (ctxCanceled \in abortArgs /\ allResultsFailed)

\* C13: in a run whose context is not cancelled and whose dispatcher has
\* reported no error, dispatcher.Stop() has been called only after the
\* Finished() signal of every registered transport fired.
C13_StopAfterAllFinished ==
    (dispStopped /\ ctxErr = "nil" /\ dispErr = "nil")
        => \A t \in TransportIDs : tFinished[t]

\* C13 witness: the watcher waited for two transports and stopped the
\* dispatcher, nothing cancelled, nothing failed.
C13_Witness ==
    /\ dispStopped
    /\ nTr >= 2
    /\ ctxErr = "nil"
    /\ dispErr = "nil"
    /\ abortArgs = {}
    /\ \A t \in TransportIDs : tFinished[t]

\* C14: abort marks every result failed with its error before it cancels
\* the run context: whenever the context has been cancelled by abort no
\* result is left un-aborted, and a failed result holds an error abort was
\* invoked with.
C14_AbortMarksBeforeCancel ==
    /\ cancelledBy = "abort" => allResultsFailed
    /\ \A r \in DOMAIN resErr : resErr[r] # "nil" => resErr[r] \in abortArgs

\* C14 witness: the watcher, still in its loop, has aborted the run with the
\* dispatcher's error, and that abort cancelled the context.
C14_Witness ==
    /\ cancelledBy = "abort"
    /\ wPc = "loop"
    /\ abortArgs = {dispErr}
    /\ \A r \in DOMAIN resErr : resErr[r] \in TransportErrors

\* Every source goroutine and the watcher have exited.
allUnitsExited ==
    /\ runStage = "running"
    /\ wPc = "done"
    /\ \A s \in SourceIDs : srcPc[s] = "done"

\* C15: the metadata channel is closed only after every source goroutine
\* and the watcher have exited, and eventually once they have; once closed
\* it stays closed and nothing more is sent on it.
C15_MetadataClosedOnceAtEnd ==
    /\ [](metaClosed => allUnitsExited)
    /\ [][metaClosed => (metaClosed' /\ metaQ' = metaQ)]_vars
    /\ (allUnitsExited ~> metaClosed)

\* C15 witness: the channel is closed holding the metadata of two sources.
C15_Witness ==
    /\ metaClosed
    /\ Len(metaQ) >= 2
    /\ panicked = {}

\* C16: a send on the metadata channel never blocks although nobody reads
\* it: the capacity is the number of sources, a source sends at most one
\* value, after its Run has returned, and a source about to send finds room.
C16_MetadataSendNeverBlocks ==
    /\ metaChCap = nSrc
    /\ Len(metaQ) <= metaChCap
    /\ \A i, j \in DOMAIN metaQ : i # j => metaQ[i] # metaQ[j]
    /\ \A i \in DOMAIN metaQ : isMeta[metaQ[i]] /\ srcPc[metaQ[i]] = "done"
    /\ \A s \in SourceIDs :
          (srcPc[s] = "ran" /\ isMeta[s]) => Len(metaQ) < metaChCap

\* C16 witness: every one of two or more sources has sent its metadata and
\* the unread channel is full.
C16_Witness ==
    /\ nSrc >= 2
    /\ Len(metaQ) = nSrc
    /\ ~metaClosed

\* C18: a panic of a source's Run stays in that source's goroutine and goes
\* through abort: no metadata is sent for the source; the goroutine still
\* ends with wg.Done(), by which time abort has run with the panic's error;
\* and once the other sources' Run calls have ended too, the metadata
\* channel is closed.
C18_SourcePanicContained ==
    /\ [](\A s \in panicked :
            /\ \A i \in DOMAIN metaQ : metaQ[i] # s
            /\ srcPc[s] = "done" =>
                  (panicErr \in abortArgs /\ allResultsFailed /\ ctxErr # "nil"))
    /\ (panicked # {}) ~> (\A s \in panicked : srcPc[s] = "done")
    /\ (panicked # {} /\ \A s \in SourceIDs : srcPc[s] # "running") ~> metaClosed

\* C18 witness: one source panicked, another sent its metadata, and the
\* channel is closed.
C18_Witness ==
    /\ metaClosed
    /\ panicked # {}
    /\ metaQ # <<>>
    /\ \A r \in DOMAIN resErr : resErr[r] = panicErr


\* C38: once the run context is cancelled the watcher gets to its end,
\* with the dispatcher stopped, whether or not the transports it has not
\* yet passed ever finish.
C38_CancelledWatcherExits ==
    (runStage = "running" /\ ctxErr # "nil") ~> (wPc = "done" /\ dispStopped)

\* C38 witness: the watcher has exited after a cancellation although a
\* transport never finished.
C38_Witness ==
    /\ ctxErr # "nil"
    /\ wPc = "done"
    /\ dispStopped
    /\ \E t \in TransportIDs : ~tFinished[t]

\* abort has not been invoked: no result is marked failed and the executor
\* has not cancelled the run context.
neverAborted ==
    /\ abortArgs = {}
    /\ \A r \in DOMAIN resErr : resErr[r] = "nil"
    /\ cancelledBy # "abort"

\* C39 as stated: in a run in which no transport call has failed (so Stop()
\* returns nil) and the caller has not cancelled the context, abort has not
\* been invoked.
C39_Original ==
    (dispErr = "nil" /\ cancelledBy # "caller") => neverAborted

\* C39: in a run in which no transport call has failed (so Stop() returns
\* nil), the caller has not cancelled the context and no source has
\* panicked, abort has not been invoked, also after the run has completed.
C39_QuietRunNeverAborts ==
    (dispErr = "nil" /\ cancelledBy # "caller" /\ panicked = {}) => neverAborted

\* C39 witness: a run with transports has completed, the watcher has called
\* Stop() and the metadata channel is closed, without any failure.
C39_Witness ==
    /\ runStage = "running"
    /\ nTr > 0
    /\ wPc = "done"
    /\ dispStopped
    /\ metaClosed
    /\ dispErr = "nil"
    /\ cancelledBy # "caller"
    /\ panicked = {}
    /\ neverAborted

(***************************************************************************)
(* limitTransformation (stdlib/universe/limit.go).  A table is the         *)
(* sequence of its column batches; a row is its position in the            *)
(* concatenated table, counted from 0.                                     *)
(***************************************************************************)
\* The ways a table reaches Process: the length of each batch tbl.Do hands
\* to its callback.
Batchings == UNION { [1..k -> 0..MaxBatchLen] : k \in 0..MaxBatches }

\* The number of rows in the first k batches of a table.
RECURSIVE rowsBefore(_, _)
rowsBefore(input, k) == IF k = 0 THEN 0 ELSE input[k] + rowsBefore(input, k - 1)

\* table.Values(cr, j) for batch k: the rows of the batch.
batchRows(input, k) == [i \in 1..input[k] |-> rowsBefore(input, k - 1) + i - 1]

\* arrow.Slice(arr, start, stop): the elements at indices start..stop-1.
Slice(arr, start, stop) == SubSeq(arr, start + 1, stop)

\* limitBatch with the offset left as it is once a batch has been cut.
limitBatchKeepsOffset(n, offset, arr) ==
    IF n <= 0 THEN [n |-> n, offset |-> offset, wrote |-> <<>>]
    ELSE LET l == Len(arr)
         IN  IF l <= offset
             THEN [n |-> n, offset |-> offset - l, wrote |-> <<>>]
             ELSE LET start == offset
                      full  == l - start
                      count == IF full > n THEN n ELSE full
                      stop  == IF full > n THEN start + count ELSE l
                  IN  [n |-> n - count, offset |-> offset,
                       wrote |-> << IF Len(arr) = count THEN arr
                                    ELSE Slice(arr, start, stop) >>]

\* The callback limitTable hands to tbl.Do, for one batch: the counters
\* after it and the chunks it writes.
limitBatch(n, offset, arr) ==
    IF n <= 0 THEN [n |-> n, offset |-> offset, wrote |-> <<>>]
    ELSE LET l == Len(arr)
         IN  IF l <= offset
             THEN [n |-> n, offset |-> offset - l, wrote |-> <<>>]
             ELSE LET start == offset
                      full  == l - start
                      count == IF full > n THEN n ELSE full
                      stop  == IF full > n THEN start + count ELSE l
                  IN  [n |-> n - count, offset |-> 0,
                       wrote |-> << IF Len(arr) = count THEN arr
                                    ELSE Slice(arr, start, stop) >>]

\* n, offset := t.n, t.offset
localCounters == [n |-> limitT.n, offset |-> limitT.offset]

\* Process(id, tbl): table.Stream runs limitTable over the table.
LimitProcess ==
    /\ limitT.stage = "ready"
    /\ limitT.tables < MaxTables
    /\ \E input \in Batchings :
          limitT' = [limitT EXCEPT !.input = input,
                                   !.curN = localCounters.n,
                                   !.curOffset = localCounters.offset,
                                   !.idx = 0,
                                   !.out = <<>>,
                                   !.stage = "do",
                                   !.tables = @ + 1]

\* tbl.Do hands the next batch to the callback.
LimitDo ==
    /\ limitT.stage = "do"
    /\ limitT.idx < Len(limitT.input)
    /\ LET o == limitBatch(limitT.curN, limitT.curOffset,
                           batchRows(limitT.input, limitT.idx + 1))
       IN  limitT' = [limitT EXCEPT !.curN = o.n,
                                    !.curOffset = o.offset,
                                    !.out = @ \o o.wrote,
                                    !.idx = @ + 1]

\* tbl.Do returns; the stream is passed on with t.d.Process.
LimitDone ==
    /\ limitT.stage = "do"
    /\ limitT.idx = Len(limitT.input)
    /\ limitT' = [limitT EXCEPT !.stage = "ready"]

\* NewLimitTransformation, for a spec with n and offset not negative.
InitLimit ==
    \E n \in 0..MaxCount, offset \in 0..MaxCount :
        limitT = [n |-> n, offset |-> offset, stage |-> "ready", input |-> <<>>,
                  idx |-> 0, curN |-> 0, curOffset |-> 0, out |-> <<>>, tables |-> 0]

NextLimit ==
    \/ LimitProcess /\ UNCHANGED <<buildVars, diffVars, runVars, narrowT, agg, diffOp>>
    \/ LimitDo /\ UNCHANGED <<buildVars, diffVars, runVars, narrowT, agg, diffOp>>
    \/ LimitDone /\ UNCHANGED <<buildVars, diffVars, runVars, narrowT, agg, diffOp>>

InitLimitOnly ==
    InitLimit /\ BuildIdle /\ DiffIdle /\ RunIdle /\ NarrowIdle /\ QuantIdle /\ DiffOpIdle

SpecLimit == InitLimitOnly /\ [][NextLimit]_vars

\* The rows of a sequence of chunks, one after the other.
RECURSIVE flatten(_)
flatten(chunks) == IF chunks = <<>> THEN <<>> ELSE chunks[1] \o flatten(Tail(chunks))

\* The rows at positions offset .. offset+n-1 of a table of `total` rows.
window(n, offset, total) ==
    LET rest == IF total > offset THEN total - offset ELSE 0
        cnt  == IF n < rest THEN n ELSE rest
    IN  [i \in 1..cnt |-> offset + i - 1]

\* C29: whatever the batches of a table, the rows written for the part of
\* it read so far are those at positions offset .. offset+n-1 of that part,
\* in order: min(n, max(0, rows - offset)) rows.  It holds for every table
\* of the run, so the counters start from t.n and t.offset for each.
C29_LimitEmitsWindow ==
    flatten(limitT.out)
        = window(limitT.n, limitT.offset, rowsBefore(limitT.input, limitT.idx))

\* C29 witness: the second table has been read to its end; it came in
\* several batches, the offset ended inside one batch and the limit cut
\* the table short.
C29_Witness ==
    /\ limitT.stage = "ready"
    /\ limitT.tables = 2
    /\ Len(limitT.input) > 1
    /\ limitT.offset > 0
    /\ limitT.offset < limitT.input[1]
    /\ limitT.n > 0
    /\ rowsBefore(limitT.input, Len(limitT.input)) > limitT.offset + limitT.n
    /\ Len(flatten(limitT.out)) = limitT.n

(***************************************************************************)
(* limitTransformationAdapter, the narrow path of limit                    *)
(* (stdlib/universe/limit.go 248-362).  The narrow transformation keeps    *)
(* one state per table and hands it back with every chunk of the table.    *)
(***************************************************************************)
\* state == nil
nilState == [set |-> FALSE, n |-> 0, offset |-> 0]

\* Process: the first call for a table gets no state and makes one from the
\* configured n and offset.
stateOrNew(state, n, offset) ==
    IF ~state.set THEN [set |-> TRUE, n |-> n, offset |-> offset] ELSE state

\* processChunk with n left as it is after a chunk has been cut.
processChunkKeepsN(state, arr) ==
    LET chunkLen == Len(arr)
    IN  IF state.n <= 0 \/ chunkLen = 0
        THEN [state |-> state, wrote |-> << Slice(arr, 0, 0) >>]
        ELSE IF chunkLen <= state.offset
        THEN [state |-> [state EXCEPT !.offset = @ - chunkLen], wrote |-> <<>>]
        ELSE LET start == state.offset
                 full  == chunkLen - start
                 count == IF full > state.n THEN state.n ELSE full
                 stop  == IF full > state.n THEN start + count ELSE chunkLen
             IN  [state |-> [state EXCEPT !.offset = 0],
                  wrote |-> << IF Len(arr) = count THEN arr
                               ELSE Slice(arr, start, stop) >>]

\* processChunk(chunk, state, dataset): the state after it and the chunks
\* it passes to dataset.Process.
processChunk(state, arr) ==
    LET chunkLen == Len(arr)
    IN  IF state.n <= 0 \/ chunkLen = 0
        THEN [state |-> state, wrote |-> << Slice(arr, 0, 0) >>]
        ELSE IF chunkLen <= state.offset
        THEN [state |-> [state EXCEPT !.offset = @ - chunkLen], wrote |-> <<>>]
        ELSE LET start == state.offset
                 full  == chunkLen - start
                 count == IF full > state.n THEN state.n ELSE full
                 stop  == IF full > state.n THEN start + count ELSE chunkLen
             IN  [state |-> [state EXCEPT !.n = @ - count, !.offset = 0],
                  wrote |-> << IF Len(arr) = count THEN arr
                               ELSE Slice(arr, start, stop) >>]

\* The chunks of a new table start to arrive: no state is carried yet.
NarrowTable ==
    /\ narrowT.stage = "ready"
    /\ narrowT.tables < MaxTables
    /\ \E input \in Batchings :
          narrowT' = [narrowT EXCEPT !.input = input,
                                     !.idx = 0,
                                     !.state = nilState,
                                     !.out = <<>>,
                                     !.stage = "chunks",
                                     !.tables = @ + 1]

\* limitTransformationAdapter.Process(chunk, state, dataset, mem)
NarrowProcess ==
    /\ narrowT.stage = "chunks"
    /\ narrowT.idx < Len(narrowT.input)
    /\ LET st == stateOrNew(narrowT.state, narrowT.n, narrowT.offset)
           o  == processChunk(st, batchRows(narrowT.input, narrowT.idx + 1))
       IN  narrowT' = [narrowT EXCEPT !.state = o.state,
                                      !.out = @ \o o.wrote,
                                      !.idx = @ + 1]

\* The table has no more chunks.
NarrowDone ==
    /\ narrowT.stage = "chunks"
    /\ narrowT.idx = Len(narrowT.input)
    /\ narrowT' = [narrowT EXCEPT !.stage = "ready"]

\* NewNarrowLimitTransformation, for a spec with n and offset not negative.
InitNarrow ==
    \E n \in 0..MaxCount, offset \in 0..MaxCount :
        narrowT = [n |-> n, offset |-> offset, stage |-> "ready", input |-> <<>>,
                   idx |-> 0, state |-> nilState, out |-> <<>>, tables |-> 0]

NextNarrow ==
    \/ NarrowTable /\ UNCHANGED <<buildVars, diffVars, runVars, limitT, agg, diffOp>>
    \/ NarrowProcess /\ UNCHANGED <<buildVars, diffVars, runVars, limitT, agg, diffOp>>
    \/ NarrowDone /\ UNCHANGED <<buildVars, diffVars, runVars, limitT, agg, diffOp>>

InitNarrowOnly ==
    InitNarrow /\ BuildIdle /\ DiffIdle /\ RunIdle /\ LimitIdle /\ QuantIdle /\ DiffOpIdle

SpecNarrow == InitNarrowOnly /\ [][NextNarrow]_vars

\* What limitTable writes for the first k batches of a table: the callback
\* applied to one batch after the other, from the configured n and offset.
RECURSIVE limitTable(_, _, _, _)
limitTable(n, offset, input, k) ==
    IF k = 0 THEN [n |-> n, offset |-> offset, wrote |-> <<>>]
    ELSE LET before == limitTable(n, offset, input, k - 1)
             o      == limitBatch(before.n, before.offset, batchRows(input, k))
         IN  [n |-> o.n, offset |-> o.offset, wrote |-> before.wrote \o o.wrote]

\* C36: for the chunks of a table handed over so far, the chunks the narrow
\* path has emitted are, once its empty chunks are left out, the chunks the
\* legacy path writes for the same batches with the same n and offset: the
\* same rows in the same order.
C36_NarrowMatchesLegacy ==
    narrowT.stage # "idle" =>
        LET legacy == limitTable(narrowT.n, narrowT.offset, narrowT.input, narrowT.idx)
        IN  /\ SelectSeq(narrowT.out, LAMBDA c : c # <<>>) = legacy.wrote
            /\ flatten(narrowT.out) = flatten(legacy.wrote)

\* C36 witness: the second table has been handed over in several chunks;
\* the narrow path has emitted rows cut out of a chunk, and an empty chunk
\* the legacy path does not write.
C36_Witness ==
    /\ narrowT.stage = "ready"
    /\ narrowT.tables = 2
    /\ Len(narrowT.input) > 1
    /\ narrowT.offset > 0
    /\ narrowT.offset < narrowT.input[1]
    /\ flatten(narrowT.out) # <<>>
    /\ \E c \in DOMAIN narrowT.out : narrowT.out[c] = <<>>

(***************************************************************************)
(* QuantileAgg and QuantileAggState (the Go code carried by                *)
(* stdlib/universe/drop_after_rename_test.flux).  A digest is the number   *)
(* of its creation, 0 stands for nil.                                      *)
(***************************************************************************)
\* tdigest.ByteSizeForCompression: the size of one digest.
ByteSizeForCompression(c) == 16 * c

\* a.mem.Account(size): accounting is additive.
Account(acc, size) == acc + size

\* popFreeDigest: the digest returned and the free list left.
popFreeDigest(free) ==
    IF Len(free) < 1 THEN [d |-> 0, free |-> free]
    ELSE [d |-> free[Len(free)], free |-> SubSeq(free, 1, Len(free) - 1)]

\* pushFreeDigest without the test for nil.
pushFreeDigestOfNil(d, free, cp, acc, comp) ==
    IF Len(free) < cp
    THEN [free |-> Append(free, d), acc |-> acc]
    ELSE [free |-> free, acc |-> Account(acc, ByteSizeForCompression(comp) * (-1))]

\* pushFreeDigest that drops a digest the free list has no room for
\* without releasing its bytes.
pushFreeDigestLeaky(d, free, cp, acc, comp) ==
    IF d # 0 /\ Len(free) < cp
    THEN [free |-> Append(free, d), acc |-> acc]
    ELSE [free |-> free, acc |-> acc]

\* pushFreeDigest(d): the free list and the accounted bytes after it.
pushFreeDigest(d, free, cp, acc, comp) ==
    IF d # 0
    THEN IF Len(free) < cp
         THEN [free |-> Append(free, d), acc |-> acc]
         ELSE [free |-> free, acc |-> Account(acc, ByteSizeForCompression(comp) * (-1))]
    ELSE [free |-> free, acc |-> acc]

\* NewFloatAgg, handed out as interface `iface`.
newFloatAgg(iface) ==
    /\ Len(agg.states) < MaxStates
    /\ IF Len(agg.freeDigests) > 0
       THEN LET o == popFreeDigest(agg.freeDigests)
            IN  agg' = [agg EXCEPT !.states = Append(@, [digest |-> o.d, iface |-> iface]),
                                   !.freeDigests = o.free]
       ELSE agg' = [agg EXCEPT
                       !.accounted = Account(@, ByteSizeForCompression(agg.Compression)),
                       !.states = Append(@, [digest |-> agg.made + 1, iface |-> iface]),
                       !.made = @ + 1]

NewFloatAgg == newFloatAgg("DoFloatAgg")

\* NewIntAgg and NewUIntAgg return what NewFloatAgg returns, asserted to
\* their interface.
NewIntAgg == newFloatAgg("DoIntAgg")

NewUIntAgg == newFloatAgg("DoUIntAgg")

\* QuantileAggState.Close, of any state handed out, closed before or not.
StateClose(k) ==
    LET o == pushFreeDigest(agg.states[k].digest, agg.freeDigests, agg.cap,
                            agg.accounted, agg.Compression)
    IN  agg' = [agg EXCEPT !.freeDigests = o.free,
                           !.accounted = o.acc,
                           !.states[k].digest = 0]

\* The loop of QuantileAgg.Close: one release for every free digest.
RECURSIVE releaseAll(_, _, _)
releaseAll(acc, k, comp) ==
    IF k = 0 THEN acc
    ELSE releaseAll(Account(acc, ByteSizeForCompression(comp) * (-1)), k - 1, comp)

\* QuantileAgg.Close: a nil slice has capacity 0.
AggClose ==
    agg' = [agg EXCEPT
               !.accounted = releaseAll(@, Len(agg.freeDigests), agg.Compression),
               !.freeDigests = <<>>,
               !.cap = 0,
               !.closed = TRUE]

\* NewQuantileAgg(q, comp, mem, size): an empty free list of capacity size.
InitQuantile ==
    \E comp \in 1..MaxCompression, size \in 0..MaxColumns :
        agg = [Compression |-> comp, cap |-> size, freeDigests |-> <<>>,
               states |-> <<>>, made |-> 0, accounted |-> 0, closed |-> FALSE]

NextQuantile ==
    \/ NewFloatAgg /\ UNCHANGED <<buildVars, diffVars, runVars, limitT, narrowT, diffOp>>
    \/ NewIntAgg /\ UNCHANGED <<buildVars, diffVars, runVars, limitT, narrowT, diffOp>>
    \/ NewUIntAgg /\ UNCHANGED <<buildVars, diffVars, runVars, limitT, narrowT, diffOp>>
    \/ \E k \in DOMAIN agg.states :
          StateClose(k) /\ UNCHANGED <<buildVars, diffVars, runVars, limitT, narrowT, diffOp>>
    \/ AggClose /\ UNCHANGED <<buildVars, diffVars, runVars, limitT, narrowT, diffOp>>

InitQuantileOnly ==
    InitQuantile /\ BuildIdle /\ DiffIdle /\ RunIdle /\ LimitIdle /\ NarrowIdle /\ DiffOpIdle

SpecQuantile == InitQuantileOnly /\ [][NextQuantile]_vars

\* The states that hold a digest.
openStates == { k \in DOMAIN agg.states : agg.states[k].digest # 0 }

\* C26: the bytes accounted against the allocator are the size of one
\* digest times the number of digests held by open states and by the free
\* list (no digest is held twice); when the aggregate and every state have
\* been closed, nothing is accounted.
C26_AccountingMatchesDigests ==
    /\ agg.accounted = ByteSizeForCompression(agg.Compression)
                          * (Cardinality(openStates) + Len(agg.freeDigests))
    /\ \A k1 \in openStates, k2 \in openStates :
          k1 # k2 => agg.states[k1].digest # agg.states[k2].digest
    /\ \A k \in openStates, f \in DOMAIN agg.freeDigests :
          agg.states[k].digest # agg.freeDigests[f]
    /\ (agg.closed /\ openStates = {}) => agg.accounted = 0

\* C26 witness: the aggregate and every state are closed after a run in
\* which several digests were created and one was reused from the free
\* list.
C26_Witness ==
    /\ agg.closed
    /\ agg.states # <<>>
    /\ openStates = {}
    /\ agg.accounted = 0
    /\ agg.made > 1
    /\ agg.made < Len(agg.states)

\* What QuantileAggState.Close of state k would leave of the free list and
\* of the accounted bytes.
afterClose(k) ==
    pushFreeDigest(agg.states[k].digest, agg.freeDigests, agg.cap, agg.accounted,
                   agg.Compression)

\* C37: the free list never holds more digests than its capacity, holds no
\* digest twice and no nil, and shares no digest with an open state; the
\* Close of a state that is closed already would change neither the free
\* list nor the accounted bytes.
C37_FreeListWellFormed ==
    /\ Len(agg.freeDigests) <= agg.cap
    /\ agg.cap <= MaxColumns
    /\ \A f \in DOMAIN agg.freeDigests : agg.freeDigests[f] # 0
    /\ \A f1 \in DOMAIN agg.freeDigests, f2 \in DOMAIN agg.freeDigests :
          f1 # f2 => agg.freeDigests[f1] # agg.freeDigests[f2]
    /\ \A f \in DOMAIN agg.freeDigests, k \in DOMAIN agg.states :
          agg.states[k].digest # agg.freeDigests[f]
    /\ \A k \in DOMAIN agg.states :
          agg.states[k].digest = 0 =>
             /\ afterClose(k).free = agg.freeDigests
             /\ afterClose(k).acc = agg.accounted

\* C37 witness: a full free list of several digests, next to a closed state
\* and an open one.
C37_Witness ==
    /\ agg.cap > 1
    /\ Len(agg.freeDigests) = agg.cap
    /\ \E k \in DOMAIN agg.states : agg.states[k].digest = 0
    /\ openStates # {}

(***************************************************************************)
(* testing.diff from its arguments to the running transformation           *)
(* (src/arrow/allocator.go): createDiffOpSpec, newDiffProcedure,           *)
(* createDiffTransformation, and one call of diff on two tables of one     *)
(* group key.  Only calls that carry both table arguments and well-typed   *)
(* options are drawn.                                                      *)
(***************************************************************************)
\* const DefaultEpsilon = 1e-6, in units of 1e-6.
DefaultEpsilon == 1

\* const DefaultNaNsEqual = false
DefaultNaNsEqual == FALSE

\* An optional argument as args.GetBool / args.GetFloat return it: ok tells
\* whether it is present.
BoolArgs == { [ok |-> FALSE, v |-> FALSE], [ok |-> TRUE, v |-> FALSE], [ok |-> TRUE, v |-> TRUE] }

FloatArgs == { [ok |-> FALSE, v |-> 0] } \cup { [ok |-> TRUE, v |-> e] : e \in 0..MaxEpsilon }

\* createDiffOpSpec: the DiffOpSpec of the arguments.
createDiffOpSpec(args) ==
    [Verbose   |-> IF args.verbose.ok THEN args.verbose.v ELSE FALSE,
     Epsilon   |-> IF args.epsilon.ok THEN args.epsilon.v ELSE DefaultEpsilon,
     NaNsEqual |-> IF args.nansEqual.ok THEN args.nansEqual.v ELSE DefaultNaNsEqual]

\* newDiffProcedure: the DiffProcedureSpec, which has the fields Verbose and
\* Epsilon.
newDiffProcedure(spec) == [Verbose |-> spec.Verbose, Epsilon |-> spec.Epsilon]

\* NewDiffTransformation: of the two options of the struct it sets epsilon;
\* nansEqual keeps the zero value of a bool.
NewDiffTransformation(spec) == [epsilon |-> spec.Epsilon, nansEqual |-> FALSE]

\* The table buffers diff is handed: any rows, under the id of the parent.
Buffers(id) == { [id |-> id, rows |-> r, released |-> 0] : r \in SeqsUpTo(MaxDiffRows) }

InitOperator ==
    \E v \in BoolArgs, e \in FloatArgs, n \in BoolArgs :
        diffOp = [stage |-> "args", args |-> [verbose |-> v, epsilon |-> e, nansEqual |-> n]]

CreateDiffOpSpec ==
    /\ diffOp.stage = "args"
    /\ diffOp' = [stage |-> "op", args |-> diffOp.args, op |-> createDiffOpSpec(diffOp.args)]

NewDiffProcedure ==
    /\ diffOp.stage = "op"
    /\ diffOp' = [stage |-> "proc", args |-> diffOp.args, op |-> diffOp.op,
                  proc |-> newDiffProcedure(diffOp.op)]

CreateDiffTransformation ==
    /\ diffOp.stage = "proc"
    /\ diffOp' = [stage |-> "tr", args |-> diffOp.args, op |-> diffOp.op,
                  proc |-> diffOp.proc, t |-> NewDiffTransformation(diffOp.proc)]

\* One call of t.diff(key, want, got) with an empty builder cache.
DiffTables ==
    /\ diffOp.stage = "tr"
    /\ \E key \in Keys, want \in Buffers(wantID), got \in Buffers(gotID) :
          diffOp' = [stage |-> "done", args |-> diffOp.args, op |-> diffOp.op,
                     proc |-> diffOp.proc, t |-> diffOp.t,
                     key |-> key, want |-> want, got |-> got,
                     out |-> diff(key, want, got, <<>>)]

NextOperator ==
    \/ CreateDiffOpSpec /\ UNCHANGED <<buildVars, diffVars, runVars, limitT, narrowT, agg>>
    \/ NewDiffProcedure /\ UNCHANGED <<buildVars, diffVars, runVars, limitT, narrowT, agg>>
    \/ CreateDiffTransformation /\ UNCHANGED <<buildVars, diffVars, runVars, limitT, narrowT, agg>>
    \/ DiffTables /\ UNCHANGED <<buildVars, diffVars, runVars, limitT, narrowT, agg>>

InitOperatorOnly ==
    InitOperator /\ BuildIdle /\ DiffIdle /\ RunIdle /\ LimitIdle /\ NarrowIdle /\ QuantIdle

SpecOperator == InitOperatorOnly /\ [][NextOperator]_vars

\* C35: the transformation built from a DiffOpSpec through newDiffProcedure
\* and NewDiffTransformation has nansEqual equal to the NaNsEqual of the
\* DiffOpSpec.
C35_NaNsEqualReachesOperator ==
    diffOp.stage \in {"tr", "done"} => diffOp.t.nansEqual = diffOp.op.NaNsEqual

\* The indexes below the shorter length at which the rows of want and got
\* differ.
differing(want, got) ==
    { i \in 1..Len(want.rows) : i <= Len(got.rows) /\ want.rows[i] # got.rows[i] }

\* The length of the shorter of the two tables.
shorter(want, got) ==
    IF Len(want.rows) < Len(got.rows) THEN Len(want.rows) ELSE Len(got.rows)

=============================================================================
